---- MODULE Spec2Model ----
(***************************************************************************)
(* Model of the text-field editing engine of bevy_streamline_ui            *)
(* (src/src/nodes/text_field.rs): the TextField component, TextSelection,  *)
(* the 9-section text projector and the handle_text_input system.          *)
(*                                                                         *)
(* The buffer is a Rust String: its indices (cursor_pos, selection start   *)
(* and length, String::insert / remove / drain, String::len) count bytes   *)
(* of the UTF-8 encoding, while chars().take / skip count characters.  A   *)
(* buffer is modelled as a sequence of characters, each with an encoded    *)
(* width, and both kinds of index are computed as the code computes them.  *)
(* A String operation that is handed an index that is out of range or not  *)
(* on a character boundary panics: the operation is abandoned and the      *)
(* component is left as it was at that point, with `panicked` set.         *)
(***************************************************************************)
EXTENDS Integers, Sequences, FiniteSets, TLC

\* Bounds of the model.
MaxLen == 2          \* characters in the buffer, key events alone
MaxApiLen == 1       \* characters in the buffer, key events and direct calls
MaxBlinkLen == 1     \* characters in the buffer, key events and blink ticks
MaxProjLen == 3      \* characters in a buffer handed to the projector alone
MaxNodes == 4        \* nodes in a tree handed to the compiler
MaxSel == 3          \* start and length of a selection handed to include_char_at

\* ------------------------------------------------------------------------
\* Characters and the String operations used by the code
\* ------------------------------------------------------------------------
WideChar == "U+00E9"                 \* a character encoded in two bytes
LiteralChars == {"a", WideChar}      \* characters a literal-character event carries
Chars == LiteralChars \cup {"\n", " ", "\t"}

Width(c) == IF c = WideChar THEN 2 ELSE 1

RECURSIVE ByteLen(_)
ByteLen(s) == IF s = <<>> THEN 0 ELSE Width(Head(s)) + ByteLen(Tail(s))

Take(s, n) == SubSeq(s, 1, IF n < Len(s) THEN n ELSE Len(s))
Skip(s, n) == SubSeq(s, (IF n < Len(s) THEN n ELSE Len(s)) + 1, Len(s))

\* str::is_char_boundary: byte index b is the start of a character or the end.
IsCharBoundary(s, b) == \E i \in 0 .. Len(s) : ByteLen(Take(s, i)) = b

\* The number of characters that precede byte index b (b a character boundary).
CharIndex(s, b) == CHOOSE i \in 0 .. Len(s) : ByteLen(Take(s, i)) = b

\* String::insert panics unless idx is a character boundary.
StringInsertOk(s, idx) == IsCharBoundary(s, idx)
StringInsert(s, idx, c) ==
    LET i == CharIndex(s, idx) IN Take(s, i) \o <<c>> \o Skip(s, i)

\* String::remove panics unless a character starts at idx.
StringRemoveOk(s, idx) == IsCharBoundary(s, idx) /\ idx < ByteLen(s)
StringRemove(s, idx) ==
    LET i == CharIndex(s, idx) IN Take(s, i) \o Skip(s, i + 1)

\* String::drain(a .. b) panics unless a <= b and both are character boundaries.
StringDrainOk(s, a, b) == a <= b /\ IsCharBoundary(s, a) /\ IsCharBoundary(s, b)
StringDrain(s, a, b) == Take(s, CharIndex(s, a)) \o Skip(s, CharIndex(s, b))

\* ------------------------------------------------------------------------
\* TextSelection
\* ------------------------------------------------------------------------
TextSelection(start, length) == [start |-> start, length |-> length]

SelEnd(sel) == sel.start + sel.length

\* A variant that moves the start leftward without growing the length.
include_char_at_no_grow(sel, index) ==
    IF index < sel.start
    THEN [start |-> index, length |-> sel.length]
    ELSE IF index >= SelEnd(sel)
         THEN [sel EXCEPT !.length = index - sel.start + 1]
         ELSE sel

\* A variant that takes the index as the exclusive end when growing rightward.
include_char_at_exclusive(sel, index) ==
    IF index < sel.start
    THEN [start |-> index, length |-> sel.length + (sel.start - index)]
    ELSE IF index >= SelEnd(sel)
         THEN [sel EXCEPT !.length = index - sel.start]
         ELSE sel

\* A variant that moves the nearer edge to an index inside the selection.
include_char_at_nearer_edge(sel, index) ==
    IF index < sel.start
    THEN [start |-> index, length |-> sel.length + (sel.start - index)]
    ELSE IF index >= SelEnd(sel)
         THEN [sel EXCEPT !.length = index - sel.start + 1]
         ELSE IF index - sel.start < SelEnd(sel) - 1 - index
              THEN [start |-> index, length |-> SelEnd(sel) - index]
              ELSE [sel EXCEPT !.length = index - sel.start + 1]

include_char_at(sel, index) ==
    IF index < sel.start
    THEN [start |-> index, length |-> sel.length + (sel.start - index)]
    ELSE IF index >= SelEnd(sel)
         THEN [sel EXCEPT !.length = index - sel.start + 1]
         ELSE sel

\* Option<TextSelection>: <<>> is None, <<sel>> is Some(sel).
None == <<>>
Some(x) == <<x>>

\* ------------------------------------------------------------------------
\* TextField
\* ------------------------------------------------------------------------
BlinkPeriod == 5     \* the 0.5 s timer, in tenths of a second

DefaultTextField ==
    [ text         |-> <<>>,
      cursor_pos   |-> 0,
      cursor_blink_timer |-> 0,
      cursor_blink |-> TRUE,
      active       |-> FALSE,
      selection    |-> None,
      font         |-> "font0",
      font_size    |-> 16,
      font_color   |-> "BLACK",
      panicked     |-> FALSE ]

Panic(f) == [f EXCEPT !.panicked = TRUE]

\* A variant that restarts the timer and leaves the blink flag as it is.
reset_cursor_blink_timer_only(f) == [f EXCEPT !.cursor_blink_timer = 0]

reset_cursor_blink(f) ==
    [f EXCEPT !.cursor_blink_timer = 0, !.cursor_blink = TRUE]

activate(f) == reset_cursor_blink([f EXCEPT !.active = TRUE])

\* A variant that also resets the cursor blink, as activate does.
deactivate_resets_blink(f) == reset_cursor_blink([f EXCEPT !.active = FALSE])

deactivate(f) == [f EXCEPT !.active = FALSE]

\* A variant that flips the flag once for every period that ended in the tick.
cursor_blink_per_period(f, delta) ==
    LET elapsed == f.cursor_blink_timer + delta
        periods == elapsed \div BlinkPeriod
    IN IF elapsed >= BlinkPeriod
       THEN [f |-> [f EXCEPT !.cursor_blink_timer = elapsed % BlinkPeriod,
                             !.cursor_blink = IF periods % 2 = 1 THEN ~f.cursor_blink
                                              ELSE f.cursor_blink],
             ret |-> TRUE]
       ELSE [f |-> [f EXCEPT !.cursor_blink_timer = elapsed], ret |-> FALSE]

\* cursor_blink(time): the repeating timer is ticked by time.delta(), in tenths
\* of a second; Timer::tick keeps the remainder of the period and reports
\* just_finished when at least one period ended during the tick.  The result
\* is the component and the value returned.
cursor_blink(f, delta) ==
    LET elapsed == f.cursor_blink_timer + delta IN
    IF elapsed >= BlinkPeriod
    THEN [f |-> [f EXCEPT !.cursor_blink_timer = elapsed % BlinkPeriod,
                          !.cursor_blink = ~f.cursor_blink],
          ret |-> TRUE]
    ELSE [f |-> [f EXCEPT !.cursor_blink_timer = elapsed], ret |-> FALSE]

drain_selection(f) ==
    IF f.panicked \/ f.selection = None THEN f
    ELSE LET selection == f.selection[1] IN
         IF ~StringDrainOk(f.text, selection.start, SelEnd(selection)) THEN Panic(f)
         ELSE [f EXCEPT !.text = StringDrain(f.text, selection.start, SelEnd(selection)),
                        !.cursor_pos = selection.start,
                        !.selection = None]

insert_char(f0, c) ==
    LET f == drain_selection(f0) IN
    IF f.panicked THEN f
    ELSE IF ~StringInsertOk(f.text, f.cursor_pos) THEN Panic(f)
    ELSE [f EXCEPT !.text = StringInsert(f.text, f.cursor_pos, c),
                   !.cursor_pos = f.cursor_pos + 1]

\* A variant that removes the character and leaves cursor_pos where it was.
remove_previous_char_keep_cursor(f) ==
    IF f.panicked THEN f
    ELSE IF f.cursor_pos > 0
    THEN IF ~StringRemoveOk(f.text, f.cursor_pos - 1) THEN Panic(f)
         ELSE [f EXCEPT !.text = StringRemove(f.text, f.cursor_pos - 1)]
    ELSE f

remove_previous_char(f) ==
    IF f.panicked THEN f
    ELSE IF f.cursor_pos > 0
    THEN IF ~StringRemoveOk(f.text, f.cursor_pos - 1) THEN Panic(f)
         ELSE [f EXCEPT !.text = StringRemove(f.text, f.cursor_pos - 1),
                        !.cursor_pos = f.cursor_pos - 1]
    ELSE f

remove_next_char(f) ==
    IF f.panicked THEN f
    ELSE IF f.cursor_pos < ByteLen(f.text)
    THEN IF ~StringRemoveOk(f.text, f.cursor_pos) THEN Panic(f)
         ELSE [f EXCEPT !.text = StringRemove(f.text, f.cursor_pos)]
    ELSE f

\* ------------------------------------------------------------------------
\* The Text component: 9 styled sections (text runs)
\* ------------------------------------------------------------------------
CURSOR_HANDLE == "cursor_font"
CursorGlyph == <<"|">>

TextStyle(font, font_size, color) ==
    [font |-> font, font_size |-> font_size, color |-> color]

TextSection(value, style) == [value |-> value, style |-> style]

\* A variant without the early return: the styles are rebuilt on every call.
initialize_text_sections_always(f, sections, force) ==
    LET normal_style   == TextStyle(f.font, f.font_size, f.font_color)
        cursor_style   == TextStyle(CURSOR_HANDLE, f.font_size, f.font_color)
        selected_style == TextStyle(f.font, f.font_size, "BLUE")
    IN << TextSection(<<>>, normal_style),
          TextSection(<<>>, cursor_style),
          TextSection(<<>>, normal_style),
          TextSection(<<>>, selected_style),
          TextSection(<<>>, cursor_style),
          TextSection(<<>>, selected_style),
          TextSection(<<>>, normal_style),
          TextSection(<<>>, cursor_style),
          TextSection(<<>>, normal_style) >>

initialize_text_sections(f, sections, force) ==
    IF ~force /\ Len(sections) = 9 THEN sections
    ELSE
    LET normal_style   == TextStyle(f.font, f.font_size, f.font_color)
        cursor_style   == TextStyle(CURSOR_HANDLE, f.font_size, f.font_color)
        selected_style == TextStyle(f.font, f.font_size, "BLUE")
    IN << TextSection(<<>>, normal_style),      \* 0: pre-selection pre-cursor
          TextSection(<<>>, cursor_style),      \* 1: pre-selection cursor
          TextSection(<<>>, normal_style),      \* 2: post-cursor
          TextSection(<<>>, selected_style),    \* 3: selection pre-cursor
          TextSection(<<>>, cursor_style),      \* 4: selection cursor
          TextSection(<<>>, selected_style),    \* 5: selection post-cursor
          TextSection(<<>>, normal_style),      \* 6: post-selection pre-cursor
          TextSection(<<>>, cursor_style),      \* 7: post-selection cursor
          TextSection(<<>>, normal_style) >>    \* 8: post-selection post-cursor

clear_sections(sections) ==
    [i \in 1 .. Len(sections) |-> [sections[i] EXCEPT !.value = <<>>]]

\* The cursor section's value: the glyph when the blink is on.
CursorValue(f) == IF f.cursor_blink THEN CursorGlyph ELSE <<>>

\* A variant that tests the zones with <= where the code tests with <.
Zone_inclusive(f) ==
    IF f.selection = None THEN "none"
    ELSE IF f.cursor_pos <= f.selection[1].start THEN "before"
    ELSE IF f.cursor_pos <= SelEnd(f.selection[1]) THEN "inside"
    ELSE "after"

\* update_text's branch: which zone the cursor is in.
Zone(f) ==
    IF f.selection = None THEN "none"
    ELSE IF f.cursor_pos < f.selection[1].start THEN "before"
    ELSE IF f.cursor_pos < SelEnd(f.selection[1]) THEN "inside"
    ELSE "after"

\* A variant that writes the rest of the buffer to run 1 and the glyph to run 2.
ValuesNoSelection_glyph_last(f) ==
    (0 :> Take(f.text, f.cursor_pos)) @@ (1 :> Skip(f.text, f.cursor_pos))
    @@ (2 :> CursorValue(f))

\* The values each branch of update_text assigns, as a function from the
\* section index (0-based, as in the code) to the value; an index the branch
\* does not assign is absent from the domain and keeps its cleared value.
ValuesNoSelection(f) ==
    (0 :> Take(f.text, f.cursor_pos)) @@ (1 :> CursorValue(f))
    @@ (2 :> Skip(f.text, f.cursor_pos))

ValuesBefore(f) ==
    LET selection == f.selection[1] IN
    (0 :> Take(f.text, f.cursor_pos)) @@ (1 :> CursorValue(f))
    @@ (2 :> Take(Skip(f.text, f.cursor_pos), selection.start - f.cursor_pos))
    @@ (3 :> Take(Skip(f.text, selection.start), selection.length))
    @@ (6 :> Skip(f.text, SelEnd(selection)))

ValuesInside(f) ==
    LET selection == f.selection[1] IN
    (0 :> Take(f.text, selection.start))
    @@ (3 :> Take(Skip(f.text, selection.start), f.cursor_pos - selection.start))
    @@ (4 :> CursorValue(f))
    @@ (5 :> Take(Skip(f.text, f.cursor_pos), SelEnd(selection) - f.cursor_pos))
    @@ (6 :> Skip(f.text, SelEnd(selection)))

\* A variant that drops the text between the end of the selection and the cursor.
ValuesAfter_no_gap(f) ==
    LET selection == f.selection[1] IN
    (0 :> Take(f.text, selection.start))
    @@ (3 :> Take(Skip(f.text, selection.start), selection.length))
    @@ (7 :> CursorValue(f))
    @@ (8 :> Skip(f.text, f.cursor_pos))

ValuesAfter(f) ==
    LET selection == f.selection[1] IN
    (0 :> Take(f.text, selection.start))
    @@ (3 :> Take(Skip(f.text, selection.start), selection.length))
    @@ (6 :> Take(Skip(f.text, SelEnd(selection)), f.cursor_pos - SelEnd(selection)))
    @@ (7 :> CursorValue(f))
    @@ (8 :> Skip(f.text, f.cursor_pos))

SectionValues(f) ==
    CASE Zone(f) = "none"   -> ValuesNoSelection(f)
      [] Zone(f) = "before" -> ValuesBefore(f)
      [] Zone(f) = "inside" -> ValuesInside(f)
      [] Zone(f) = "after"  -> ValuesAfter(f)

update_text(f, sections) ==
    LET cleared == clear_sections(initialize_text_sections(f, sections, FALSE))
        vals == SectionValues(f)
    IN [i \in 1 .. Len(cleared) |->
          IF (i - 1) \in DOMAIN vals
          THEN [cleared[i] EXCEPT !.value = vals[i - 1]]
          ELSE cleared[i]]

\* ------------------------------------------------------------------------
\* handle_text_input: one KeyboardInput event against the text field
\* ------------------------------------------------------------------------
\* ev.key_code is the physical key, ev.logical_key is None or Some(c) for
\* Key::Character, ev.state is the ButtonState; ev.shift_key and ev.ctl_key
\* are what keyboard_state.pressed reports for the shift and control keys.
KeyCodes == {"Backspace", "Delete", "ArrowLeft", "ArrowRight", "Home", "End",
             "Enter", "Space", "Tab", "KeyA", "Other"}

\* The logical keys the input backend delivers with a key code: the named keys
\* are not Key::Character, the A key carries "a" (the control key does not
\* change the logical key), any other key carries a character or none.
LogicalKeys(key_code) ==
    CASE key_code = "KeyA"  -> {Some("a")}
      [] key_code = "Other" -> {None, Some(WideChar)}
      [] OTHER              -> {None}

Events ==
    { ev \in [key_code : KeyCodes, logical_key : {None} \cup {Some(c) : c \in LiteralChars},
              state : {"Pressed", "Released"}, shift_key : BOOLEAN, ctl_key : BOOLEAN] :
        ev.logical_key \in LogicalKeys(ev.key_code) }

key_Backspace(f) ==
    IF f.selection # None THEN drain_selection(f) ELSE remove_previous_char(f)

key_Delete(f) ==
    IF f.selection # None THEN drain_selection(f) ELSE remove_next_char(f)

key_ArrowLeft(f, shift_key) ==
    IF f.cursor_pos > 0
    THEN LET g == [f EXCEPT !.cursor_pos = f.cursor_pos - 1] IN
         IF shift_key
         THEN IF g.selection # None
              THEN [g EXCEPT !.selection = Some(include_char_at(g.selection[1], g.cursor_pos))]
              ELSE [g EXCEPT !.selection = Some(TextSelection(g.cursor_pos, 1))]
         ELSE g
    ELSE f

key_ArrowRight(f, shift_key) ==
    IF f.cursor_pos < ByteLen(f.text)
    THEN LET g == [f EXCEPT !.cursor_pos = f.cursor_pos + 1] IN
         IF shift_key
         THEN IF g.selection # None
              THEN [g EXCEPT !.selection = Some(include_char_at(g.selection[1], g.cursor_pos))]
              ELSE [g EXCEPT !.selection = Some(TextSelection(g.cursor_pos - 1, 1))]
         ELSE g
    ELSE f

key_Home(f, shift_key) ==
    LET g == IF shift_key
             THEN IF f.selection # None
                  THEN [f EXCEPT !.selection = Some(include_char_at(f.selection[1], 0))]
                  ELSE [f EXCEPT !.selection = Some(TextSelection(0, f.cursor_pos))]
             ELSE f
    IN [g EXCEPT !.cursor_pos = 0]

\* A variant in which End without shift drops the selection.
key_End_deselects(f, shift_key) ==
    LET len == ByteLen(f.text)
        g == IF shift_key
             THEN IF f.selection # None
                  THEN [f EXCEPT !.selection = Some(include_char_at(f.selection[1], len))]
                  ELSE [f EXCEPT !.selection =
                                   Some(TextSelection(f.cursor_pos, len - f.cursor_pos))]
             ELSE [f EXCEPT !.selection = None]
    IN [g EXCEPT !.cursor_pos = len]

key_End(f, shift_key) ==
    LET len == ByteLen(f.text)
        g == IF shift_key
             THEN IF f.selection # None
                  THEN [f EXCEPT !.selection = Some(include_char_at(f.selection[1], len))]
                  ELSE [f EXCEPT !.selection =
                                   Some(TextSelection(f.cursor_pos, len - f.cursor_pos))]
             ELSE f
    IN [g EXCEPT !.cursor_pos = len]

key_Insert(f, c) == insert_char(drain_selection(f), c)

key_KeyA(f) == [f EXCEPT !.selection = Some(TextSelection(0, ByteLen(f.text)))]

\* The match on ev.key_code: the component after the branch, and the dirty flag.
KeyCodeBranch(f, ev) ==
    CASE ev.key_code = "Backspace"  -> [f |-> key_Backspace(f), dirty |-> TRUE]
      [] ev.key_code = "Delete"     -> [f |-> key_Delete(f), dirty |-> TRUE]
      [] ev.key_code = "ArrowLeft"  -> [f |-> key_ArrowLeft(f, ev.shift_key), dirty |-> TRUE]
      [] ev.key_code = "ArrowRight" -> [f |-> key_ArrowRight(f, ev.shift_key), dirty |-> TRUE]
      [] ev.key_code = "Home"       -> [f |-> key_Home(f, ev.shift_key), dirty |-> TRUE]
      [] ev.key_code = "End"        -> [f |-> key_End(f, ev.shift_key), dirty |-> TRUE]
      [] ev.key_code = "Enter"      -> [f |-> key_Insert(f, "\n"), dirty |-> TRUE]
      [] ev.key_code = "Space"      -> [f |-> key_Insert(f, " "), dirty |-> TRUE]
      [] ev.key_code = "Tab"        -> [f |-> key_Insert(f, "\t"), dirty |-> TRUE]
      [] ev.key_code = "KeyA"       -> IF ev.ctl_key
                                       THEN [f |-> key_KeyA(f), dirty |-> TRUE]
                                       ELSE [f |-> f, dirty |-> FALSE]
      [] OTHER                      -> [f |-> f, dirty |-> FALSE]

\* The `if let Key::Character(ref s) = ev.logical_key` that follows the match.
CharacterBranch(r, ev) ==
    IF r.f.panicked \/ ev.logical_key = None THEN r
    ELSE [f |-> key_Insert(r.f, ev.logical_key[1]), dirty |-> TRUE]

\* A variant without the test of field.active.
handle_text_input_any_field(f, sections, ev) ==
    IF ev.state # "Pressed"
    THEN [field |-> f, sections |-> sections]
    ELSE LET r == CharacterBranch(KeyCodeBranch(f, ev), ev) IN
         IF r.f.panicked \/ ~r.dirty
         THEN [field |-> r.f, sections |-> sections]
         ELSE LET g == reset_cursor_blink(r.f) IN
              [field |-> g, sections |-> update_text(g, sections)]

\* The body of the loops for one event and the field: the component and the
\* Text sections afterwards.
handle_text_input(f, sections, ev) ==
    IF ~f.active \/ ev.state # "Pressed"
    THEN [field |-> f, sections |-> sections]
    ELSE LET r == CharacterBranch(KeyCodeBranch(f, ev), ev) IN
         IF r.f.panicked \/ ~r.dirty
         THEN [field |-> r.f, sections |-> sections]
         ELSE LET g == reset_cursor_blink(r.f) IN
              [field |-> g, sections |-> update_text(g, sections)]

\* The system over the events of one frame: it returns at once when there are
\* none, and otherwise handles them in order.
RECURSIVE handle_text_input_system(_, _, _)
handle_text_input_system(f, sections, evs) ==
    IF evs = <<>> THEN [field |-> f, sections |-> sections]
    ELSE LET r == handle_text_input(f, sections, Head(evs)) IN
         IF r.field.panicked THEN r
         ELSE handle_text_input_system(r.field, r.sections, Tail(evs))

\* One run of the Update schedule as StreamlineUIPlugin fills it: its only
\* system is handle_text_input; the frame's time delta reaches no system.
UpdateSchedule(f, sections, delta, evs) == handle_text_input_system(f, sections, evs)

\* ------------------------------------------------------------------------
\* Style values and the position block (blocks/position.rs)
\* ------------------------------------------------------------------------
\* Val: Auto, Px(n) or Percent(n).
Auto == [val |-> "Auto", n |-> 0]
Px(n) == [val |-> "Px", n |-> n]
Percent(n) == [val |-> "Percent", n |-> n]

UiRect_all(v) == [left |-> v, right |-> v, top |-> v, bottom |-> v]

\* Style::default, restricted to the fields the blocks write.
DefaultStyle ==
    [ position_type   |-> "Relative",
      left            |-> Auto,
      right           |-> Auto,
      top             |-> Auto,
      bottom          |-> Auto,
      width           |-> Auto,
      height          |-> Auto,
      margin          |-> UiRect_all(Px(0)),
      align_content   |-> "Default",
      justify_content |-> "Default",
      align_items     |-> "Default",
      justify_items   |-> "Default" ]

AnchorPoints ==
    {"TopLeft", "TopCenter", "TopRight", "CenterLeft", "Center", "CenterRight",
     "BottomLeft", "BottomCenter", "BottomRight"}

center_margin_hor(margin) ==
    [top |-> margin.top, bottom |-> margin.bottom, left |-> Auto, right |-> Auto]

center_margin_ver(margin) ==
    [top |-> Auto, bottom |-> Auto, left |-> margin.left, right |-> margin.right]

center_margin == [top |-> Auto, bottom |-> Auto, left |-> Auto, right |-> Auto]

\* A variant in which TopCenter leaves the margin as UiRect::all(margin).
set_anchor_point_top_center_uncentered(style, point, margin) ==
    LET s == [style EXCEPT !.margin = UiRect_all(margin), !.position_type = "Absolute"]
        Z == Px(0)
    IN CASE point = "TopLeft" ->
              [s EXCEPT !.top = Z, !.bottom = Auto, !.left = Z, !.right = Auto]
         [] point = "TopCenter" ->
              [s EXCEPT !.top = Z, !.bottom = Auto, !.left = Z, !.right = Z]
         [] point = "TopRight" ->
              [s EXCEPT !.top = Z, !.bottom = Auto, !.right = Z, !.left = Auto]
         [] point = "CenterLeft" ->
              [s EXCEPT !.top = Z, !.bottom = Z, !.left = Z, !.right = Auto,
                        !.margin = center_margin_ver(s.margin)]
         [] point = "Center" ->
              [s EXCEPT !.top = Z, !.bottom = Z, !.left = Z, !.right = Z,
                        !.margin = center_margin]
         [] point = "CenterRight" ->
              [s EXCEPT !.top = Z, !.bottom = Z, !.left = Auto, !.right = Z,
                        !.margin = center_margin_ver(s.margin)]
         [] point = "BottomLeft" ->
              [s EXCEPT !.top = Auto, !.bottom = Z, !.left = Z, !.right = Auto]
         [] point = "BottomCenter" ->
              [s EXCEPT !.top = Auto, !.bottom = Z, !.left = Z, !.right = Z,
                        !.margin = center_margin_hor(s.margin)]
         [] point = "BottomRight" ->
              [s EXCEPT !.top = Auto, !.bottom = Z, !.left = Auto, !.right = Z]

set_anchor_point(style, point, margin) ==
    LET s == [style EXCEPT !.margin = UiRect_all(margin), !.position_type = "Absolute"]
        Z == Px(0)
    IN CASE point = "TopLeft" ->
              [s EXCEPT !.top = Z, !.bottom = Auto, !.left = Z, !.right = Auto]
         [] point = "TopCenter" ->
              [s EXCEPT !.top = Z, !.bottom = Auto, !.left = Z, !.right = Z,
                        !.margin = center_margin_hor(s.margin)]
         [] point = "TopRight" ->
              [s EXCEPT !.top = Z, !.bottom = Auto, !.right = Z, !.left = Auto]
         [] point = "CenterLeft" ->
              [s EXCEPT !.top = Z, !.bottom = Z, !.left = Z, !.right = Auto,
                        !.margin = center_margin_ver(s.margin)]
         [] point = "Center" ->
              [s EXCEPT !.top = Z, !.bottom = Z, !.left = Z, !.right = Z,
                        !.margin = center_margin]
         [] point = "CenterRight" ->
              [s EXCEPT !.top = Z, !.bottom = Z, !.left = Auto, !.right = Z,
                        !.margin = center_margin_ver(s.margin)]
         [] point = "BottomLeft" ->
              [s EXCEPT !.top = Auto, !.bottom = Z, !.left = Z, !.right = Auto]
         [] point = "BottomCenter" ->
              [s EXCEPT !.top = Auto, !.bottom = Z, !.left = Z, !.right = Z,
                        !.margin = center_margin_hor(s.margin)]
         [] point = "BottomRight" ->
              [s EXCEPT !.top = Auto, !.bottom = Z, !.left = Auto, !.right = Z]

\* NodePosition: the three variants of the enum.
Relative(width, height) == [kind |-> "Relative", width |-> width, height |-> height]

Absolute(x, y, width, height) ==
    [kind |-> "Absolute", x |-> x, y |-> y, width |-> width, height |-> height]

Anchored(anchor, width, height, margin) ==
    [kind |-> "Anchored", anchor |-> anchor, width |-> width, height |-> height,
     margin |-> margin]

DefaultNodePosition == Relative(Auto, Auto)

\* ------------------------------------------------------------------------
\* NodeBundleBuilder (builders/bundle.rs) and the blocks' apply_to_node
\* ------------------------------------------------------------------------
DefaultNodeBundleBuilder ==
    [ parent     |-> None,
      style      |-> DefaultStyle,
      bundle     |-> "Node",
      components |-> <<>>,
      children   |-> <<>> ]

set_parent(node, parent) == [node EXCEPT !.parent = parent]

bundle_type(node, bundle) == [node EXCEPT !.bundle = bundle]

\* insert: one more deferred component writer, which inserts the given bundle.
insert(node, components) == [node EXCEPT !.components = Append(@, components)]

set_children(node, children) == [node EXCEPT !.children = children]

NodePosition_apply_to_node(node, pos) ==
    LET style == node.style IN
    CASE pos.kind = "Relative" ->
           [node EXCEPT !.style = [style EXCEPT !.width = pos.width, !.height = pos.height]]
      [] pos.kind = "Absolute" ->
           [node EXCEPT !.style = [style EXCEPT !.position_type = "Absolute",
                                                !.left = pos.x, !.top = pos.y,
                                                !.width = pos.width, !.height = pos.height]]
      [] pos.kind = "Anchored" ->
           [node EXCEPT !.style = [set_anchor_point(style, pos.anchor, pos.margin)
                                      EXCEPT !.width = pos.width, !.height = pos.height]]

\* NodeBackground: None, Color {color} or Image {img, tint, tex_scaling}.
NodeBackground_apply_to_node(node, background) ==
    CASE background.kind = "None" -> node
      [] background.kind = "Color" ->
           insert(node, <<[type |-> "BackgroundColor", color |-> background.color]>>)
      [] background.kind = "Image" ->
           LET n == insert(bundle_type(node, "Image"),
                           << [type |-> "UiImage", img |-> background.img],
                              [type |-> "BackgroundColor", color |-> background.tint] >>)
           IN IF background.tex_scaling = "Stretched" THEN n
              ELSE insert(n, <<[type |-> "ImageScaleMode", mode |-> background.tex_scaling]>>)

NodeChildren_apply_to_node(node, children) == set_children(node, children)

\* The parts of an anchor point: its row (Top, Center, Bottom) and its column.
AnchorRow(anchor) ==
    CASE anchor \in {"TopLeft", "TopCenter", "TopRight"}          -> "Top"
      [] anchor \in {"CenterLeft", "Center", "CenterRight"}       -> "Center"
      [] anchor \in {"BottomLeft", "BottomCenter", "BottomRight"} -> "Bottom"

AnchorColumn(anchor) ==
    CASE anchor \in {"TopLeft", "CenterLeft", "BottomLeft"}       -> "Left"
      [] anchor \in {"TopCenter", "Center", "BottomCenter"}       -> "Center"
      [] anchor \in {"TopRight", "CenterRight", "BottomRight"}    -> "Right"

\* text.justify of the content element.
JustifyText(anchor) == AnchorColumn(anchor)

\* apply_to_parent of NodeText and of NodeTextField: the alignment of the
\* container, from the content's anchor point.
AlignmentOf(anchor) ==
    LET align == CASE AnchorRow(anchor) = "Top"    -> "FlexStart"
                   [] AnchorRow(anchor) = "Center" -> "Center"
                   [] AnchorRow(anchor) = "Bottom" -> "FlexEnd"
        justify == CASE AnchorColumn(anchor) = "Left"   -> "Start"
                     [] AnchorColumn(anchor) = "Center" -> "Center"
                     [] AnchorColumn(anchor) = "Right"  -> "End"
    IN [align |-> align, justify |-> justify]

\* A variant that writes the alignment into a fresh Style.
apply_to_parent_fresh_style(node, anchor_point) ==
    LET a == AlignmentOf(anchor_point) IN
    [node EXCEPT !.style = [DefaultStyle EXCEPT !.align_content = a.align,
                                                !.justify_content = a.justify,
                                                !.align_items = a.align,
                                                !.justify_items = a.justify]]

apply_to_parent(node, anchor_point) ==
    LET a == AlignmentOf(anchor_point) IN
    [node EXCEPT !.style = [node.style EXCEPT !.align_content = a.align,
                                              !.justify_content = a.justify,
                                              !.align_items = a.align,
                                              !.justify_items = a.justify]]

NodeText_apply_to_node(node, text) ==
    insert(bundle_type(node, "Text"),
           <<[type |-> "Text",
              linebreak_behavior |-> text.line_break,
              sections |-> [i \in 1 .. Len(text.sections) |->
                               TextSection(text.sections[i].text,
                                           TextStyle(text.sections[i].font,
                                                     text.sections[i].text_size,
                                                     text.sections[i].color))],
              justify |-> JustifyText(text.anchor_point)]>>)

NodeTextField_apply_to_node(node, text_field) ==
    insert(insert(bundle_type(node, "Text"),
                  <<[type |-> "Text",
                     linebreak_behavior |-> text_field.line_break,
                     sections |-> <<>>,
                     justify |-> JustifyText(text_field.anchor_point)]>>),
           <<[type |-> "TextField",
              value |-> [DefaultTextField EXCEPT !.font = text_field.font,
                                                 !.font_size = text_field.font_size,
                                                 !.font_color = text_field.color],
              placeholder_text |-> text_field.placeholder,
              placeholder_color |-> text_field.placeholder_color]>>)

\* A variant that never attaches the entity to its parent.
EntityCommands_no_parent(node, id) ==
    << [cmd |-> "spawn", id |-> id, bundle |-> node.bundle],
       [cmd |-> "insert", id |-> id, components |-> <<[type |-> "Style", style |-> node.style]>>] >>
    \o [i \in 1 .. Len(node.components) |->
           [cmd |-> "insert", id |-> id, components |-> node.components[i]]]

\* NodeBundleBuilder::build for the entity id that cmd.spawn hands out: the
\* commands it queues, in order; the children are compiled after them.
EntityCommands(node, id) ==
    << [cmd |-> "spawn", id |-> id, bundle |-> node.bundle],
       [cmd |-> "insert", id |-> id, components |-> <<[type |-> "Style", style |-> node.style]>>] >>
    \o (IF node.parent # None
        THEN <<[cmd |-> "set_parent", id |-> id, parent |-> node.parent[1]]>>
        ELSE <<>>)
    \o [i \in 1 .. Len(node.components) |->
           [cmd |-> "insert", id |-> id, components |-> node.components[i]]]

\* A variant that compiles the children last to first.
ChildCalls_reversed(node, id) ==
    [i \in 1 .. Len(node.children) |->
        [node |-> node.children[Len(node.children) + 1 - i], parent |-> Some(id)]]

\* The build_node calls build makes for the children, in sibling order.
ChildCalls(node, id) ==
    [i \in 1 .. Len(node.children) |-> [node |-> node.children[i], parent |-> Some(id)]]

\* ------------------------------------------------------------------------
\* UiNode (nodes/mod.rs)
\* ------------------------------------------------------------------------
\* The node descriptions handed to the compiler.
NoBackground == [kind |-> "None"]
ColorBackground == [kind |-> "Color", color |-> "WHITE"]
ImageBackground ==
    [kind |-> "Image", img |-> "panel.png", tint |-> "WHITE", tex_scaling |-> "Tiled"]

Canvas(children) == [kind |-> "Canvas", children |-> children]

Panel(background, position, children) ==
    [kind |-> "Panel", background |-> background, position |-> position,
     children |-> children]

Text(background, position, text) ==
    [kind |-> "Text", background |-> background, position |-> position, text |-> text]

TextFieldNode(background, position, text_field) ==
    [kind |-> "TextField", background |-> background, position |-> position,
     text_field |-> text_field]

\* NodeText::default and one with a section; NodeTextField::default.
DefaultNodeText ==
    [anchor_point |-> "Center", sections |-> <<>>, line_break |-> "WordBoundary"]

TitleNodeText ==
    [anchor_point |-> "TopLeft",
     sections |-> <<[text |-> <<"a">>, font |-> "font0", text_size |-> 24, color |-> "BLACK"]>>,
     line_break |-> "WordBoundary"]

DefaultNodeTextField ==
    [font |-> "", font_size |-> 16, color |-> "BLACK", max_chars |-> None,
     single_line |-> FALSE, placeholder |-> None, placeholder_color |-> "GRAY",
     anchor_point |-> "CenterLeft", line_break |-> "WordBoundary"]

\* ------------------------------------------------------------------------
\* State
\* ------------------------------------------------------------------------
VARIABLES
    field,      \* the TextField component
    sections,   \* text.sections of the Text component of the same entity
    last,       \* history: the operation that has just run, its input and the
                \* state before it; "idle" between two operations
    node,       \* a NodeBundleBuilder that blocks are being applied to
    root,       \* the UiNode tree handed to UiNode::build
    calls,      \* the build_node calls still to run, the next one first
    cmds        \* the Commands queue: the entity commands queued so far

vars == <<field, sections, last, node, root, calls, cmds>>

\* The state of the node compiler, which the text field's operations leave alone.
uivars == <<node, root, calls, cmds>>

NoEvent == [key_code |-> "Other", logical_key |-> None, state |-> "Released",
            shift_key |-> FALSE, ctl_key |-> FALSE]

Idle(run_p, run_k, run_text) ==
    [op |-> "idle", ev |-> NoEvent, c |-> None, pre |-> DefaultTextField,
     pre_sections |-> <<>>, run_p |-> run_p, run_k |-> run_k, run_text |-> run_text]

Last(op, ev, c) ==
    [op |-> op, ev |-> ev, c |-> c, pre |-> field, pre_sections |-> sections,
     run_p |-> 0, run_k |-> 0, run_text |-> <<>>]

\* A run of ArrowLeft presses with shift held on the active field, begun with
\* no selection and the cursor at run_p: run_k presses so far, none of them at
\* cursor 0, and nothing else done to the field in between.
ShiftLeftRun(ev) ==
    IF field.active /\ ev.state = "Pressed" /\ ev.key_code = "ArrowLeft"
       /\ ev.shift_key /\ field.cursor_pos > 0
    THEN IF last.run_k > 0
         THEN [p |-> last.run_p, k |-> last.run_k + 1, t |-> last.run_text]
         ELSE IF field.selection = None
              THEN [p |-> field.cursor_pos, k |-> 1, t |-> field.text]
              ELSE [p |-> 0, k |-> 0, t |-> <<>>]
    ELSE [p |-> 0, k |-> 0, t |-> <<>>]

\* After construction (TextField::default, Text::default): NodeTextField's
\* apply_to_node inserts both components.
Init ==
    /\ field = DefaultTextField
    /\ sections = <<>>
    /\ last = Idle(0, 0, <<>>)
    /\ node = DefaultNodeBundleBuilder
    /\ root = TextFieldNode(NoBackground, DefaultNodePosition, DefaultNodeTextField)
    /\ calls = <<>>
    /\ cmds = <<>>

\* ------------------------------------------------------------------------
\* Actions
\* ------------------------------------------------------------------------
Ready == last.op = "idle" /\ ~field.panicked

\* The system handles one delivered event; the buffer holds at most n characters.
KeyEventBounded(n) ==
    /\ Ready
    /\ \E ev \in Events :
         LET r == handle_text_input(field, sections, ev)
             run == ShiftLeftRun(ev)
         IN /\ Len(r.field.text) <= n
            /\ field' = r.field
            /\ sections' = r.sections
            /\ last' = [Last("key", ev, None) EXCEPT
                           !.run_p = run.p, !.run_k = run.k, !.run_text = run.t]
    /\ UNCHANGED uivars

KeyEvent == KeyEventBounded(MaxLen)

KeyEventApi == KeyEventBounded(MaxApiLen)

\* The focus manager.
Activate ==
    /\ Ready
    /\ field' = activate(field)
    /\ last' = Last("activate", NoEvent, None)
    /\ UNCHANGED <<sections, uivars>>

Deactivate ==
    /\ Ready
    /\ field' = deactivate(field)
    /\ last' = Last("deactivate", NoEvent, None)
    /\ UNCHANGED <<sections, uivars>>

\* Direct calls of the public editing methods.
InsertChar ==
    /\ Ready
    /\ \E c \in Chars :
         LET g == insert_char(field, c) IN
         /\ Len(g.text) <= MaxApiLen
         /\ field' = g
         /\ last' = Last("insert_char", NoEvent, Some(c))
    /\ UNCHANGED <<sections, uivars>>

RemovePreviousChar ==
    /\ Ready
    /\ field' = remove_previous_char(field)
    /\ last' = Last("remove_previous_char", NoEvent, None)
    /\ UNCHANGED <<sections, uivars>>

RemoveNextChar ==
    /\ Ready
    /\ field' = remove_next_char(field)
    /\ last' = Last("remove_next_char", NoEvent, None)
    /\ UNCHANGED <<sections, uivars>>

DrainSelection ==
    /\ Ready
    /\ field' = drain_selection(field)
    /\ last' = Last("drain_selection", NoEvent, None)
    /\ UNCHANGED <<sections, uivars>>

\* insert_char(c) immediately followed by remove_previous_char().
InsertThenRemove ==
    /\ Ready
    /\ \E c \in Chars :
         /\ field' = remove_previous_char(insert_char(field, c))
         /\ last' = Last("insert_then_remove", NoEvent, Some(c))
    /\ UNCHANGED <<sections, uivars>>

\* The projector, called on its own.
UpdateText ==
    /\ Ready
    /\ sections' = update_text(field, sections)
    /\ last' = Last("update_text", NoEvent, None)
    /\ UNCHANGED <<field, uivars>>

ForceInitialize ==
    /\ Ready
    /\ sections' = initialize_text_sections(field, sections, TRUE)
    /\ last' = Last("initialize_text_sections", NoEvent, None)
    /\ UNCHANGED <<field, uivars>>

\* The owner of the component assigns its public font, font_size and
\* font_color fields.
FieldStyles ==
    { [font |-> "font0", font_size |-> 16, font_color |-> "BLACK"],
      [font |-> "font1", font_size |-> 24, font_color |-> "RED"] }

SetStyle ==
    /\ Ready
    /\ \E st \in FieldStyles :
         /\ st.font # field.font
         /\ field' = [field EXCEPT !.font = st.font, !.font_size = st.font_size,
                                   !.font_color = st.font_color]
    /\ last' = Last("set_style", NoEvent, None)
    /\ UNCHANGED <<sections, uivars>>

\* The operation has returned; the next one may begin.
Return ==
    /\ last.op # "idle"
    /\ last' = Idle(last.run_p, last.run_k, last.run_text)
    /\ UNCHANGED <<field, sections, uivars>>

\* A host system calls cursor_blink with the time of its tick.
Deltas == {2, BlinkPeriod, 2 * BlinkPeriod + 1}

CursorBlink ==
    /\ Ready
    /\ \E delta \in Deltas :
         LET r == cursor_blink(field, delta) IN
         /\ field' = r.f
         /\ last' = Last("cursor_blink", NoEvent, Some([delta |-> delta, ret |-> r.ret]))
    /\ UNCHANGED <<sections, uivars>>

\* A host calls reset_cursor_blink.
ResetCursorBlink ==
    /\ Ready
    /\ field' = reset_cursor_blink(field)
    /\ last' = Last("reset_cursor_blink", NoEvent, None)
    /\ UNCHANGED <<sections, uivars>>

KeyEventBlink == KeyEventBounded(MaxBlinkLen)

\* The running system: key events and the focus manager.
Next == KeyEvent \/ Activate \/ Deactivate \/ Return

Spec == Init /\ [][Next]_vars

\* Key events and the focus manager, with a host that ticks the cursor blink.
NextBlink ==
    \/ KeyEventBlink \/ Activate \/ Deactivate \/ CursorBlink \/ ResetCursorBlink
    \/ Return

SpecBlink == Init /\ [][NextBlink]_vars

\* The running application: the host ticks the Update schedule, in frames
\* with one key event (KeyEventBlink) and in frames with none (Tick), and the
\* focus manager activates and deactivates the field.  The host's runner loops
\* without end, so frames keep coming: a frame without key events runs again
\* and again, and every operation that has begun returns.
Tick ==
    /\ Ready
    /\ \E delta \in Deltas :
         LET r == UpdateSchedule(field, sections, delta, <<>>) IN
         /\ field' = r.field
         /\ sections' = r.sections
         /\ last' = Last("tick", NoEvent, Some(delta))
    /\ UNCHANGED uivars

NextRun == KeyEventBlink \/ Activate \/ Deactivate \/ Tick \/ Return

SpecRun == Init /\ [][NextRun]_vars /\ SF_vars(Tick) /\ WF_vars(Return)

\* The same with direct calls of the editing methods.
NextApi ==
    \/ KeyEventApi \/ Activate \/ Deactivate \/ Return
    \/ InsertChar \/ RemovePreviousChar \/ RemoveNextChar \/ DrainSelection
    \/ InsertThenRemove

SpecApi == Init /\ [][NextApi]_vars

\* The projector alone, on every field state within the bounds.
ProjChars == {"a", WideChar, " "}

ProjTexts == UNION { [1 .. n -> ProjChars] : n \in 0 .. MaxProjLen }

ProjSelections(t) ==
    {None} \cup { Some(TextSelection(start, length)) :
                    start \in 0 .. ByteLen(t), length \in 0 .. ByteLen(t) + 1 }

InitProj ==
    /\ \E t \in ProjTexts, b \in BOOLEAN :
         \E cp \in 0 .. ByteLen(t), sel \in ProjSelections(t) :
            /\ sel # None => SelEnd(sel[1]) <= ByteLen(t) + 1
            /\ field = [DefaultTextField EXCEPT !.text = t, !.cursor_pos = cp,
                                                !.selection = sel, !.cursor_blink = b]
    /\ sections \in { <<>>, <<TextSection(<<"a">>, TextStyle("font0", 16, "BLACK"))>> }
    /\ last = Idle(0, 0, <<>>)
    /\ node = DefaultNodeBundleBuilder
    /\ root = TextFieldNode(NoBackground, DefaultNodePosition, DefaultNodeTextField)
    /\ calls = <<>>
    /\ cmds = <<>>

NextProj == UpdateText \/ ForceInitialize \/ SetStyle \/ Return

SpecProj == InitProj /\ [][NextProj]_vars

\* A run of ArrowLeft and ArrowRight presses with shift held, on an active
\* field that holds any text, with the cursor anywhere and no selection.  The
\* history keeps the position at which the run began in last.run_p.
ShiftArrowEvents ==
    { ev \in Events : /\ ev.state = "Pressed"
                      /\ ev.shift_key
                      /\ ~ev.ctl_key
                      /\ ev.key_code \in {"ArrowLeft", "ArrowRight"} }

InitShift ==
    /\ \E t \in ProjTexts :
         \E cp \in 0 .. ByteLen(t) :
            /\ field = [DefaultTextField EXCEPT !.text = t, !.cursor_pos = cp,
                                                !.active = TRUE]
            /\ last = Idle(cp, 0, t)
    /\ sections = <<>>
    /\ node = DefaultNodeBundleBuilder
    /\ root = TextFieldNode(NoBackground, DefaultNodePosition, DefaultNodeTextField)
    /\ calls = <<>>
    /\ cmds = <<>>

ShiftArrow ==
    /\ Ready
    /\ \E ev \in ShiftArrowEvents :
         LET r == handle_text_input(field, sections, ev) IN
         /\ field' = r.field
         /\ sections' = r.sections
         /\ last' = [Last("key", ev, None) EXCEPT
                        !.run_p = last.run_p, !.run_text = last.run_text]
    /\ UNCHANGED uivars

NextShift == ShiftArrow \/ Return

SpecShift == InitShift /\ [][NextShift]_vars

\* include_char_at called on a selection, on its own.
Selections ==
    { TextSelection(start, length) : start \in 0 .. MaxSel, length \in 0 .. MaxSel }

InitSel ==
    /\ \E sel \in Selections : field = [DefaultTextField EXCEPT !.selection = Some(sel)]
    /\ sections = <<>>
    /\ last = Idle(0, 0, <<>>)
    /\ node = DefaultNodeBundleBuilder
    /\ root = TextFieldNode(NoBackground, DefaultNodePosition, DefaultNodeTextField)
    /\ calls = <<>>
    /\ cmds = <<>>

IncludeCharAt ==
    /\ Ready
    /\ \E index \in 0 .. 2 * MaxSel + 1 :
         /\ SelEnd(field.selection[1]) <= 2 * MaxSel + 1
         /\ field' = [field EXCEPT !.selection = Some(include_char_at(field.selection[1], index))]
         /\ last' = Last("include_char_at", NoEvent, Some(index))
    /\ UNCHANGED <<sections, uivars>>

NextSel == IncludeCharAt \/ Return

SpecSel == InitSel /\ [][NextSel]_vars

\* ------------------------------------------------------------------------
\* Compiling a node tree (nodes/mod.rs, builders/bundle.rs)
\* ------------------------------------------------------------------------
\* The blocks of the panels of the trees.
PanelBlocks ==
    { <<ColorBackground, Anchored("TopCenter", Px(100), Px(50), Px(8))>>,
      <<ImageBackground, Absolute(Px(10), Px(20), Percent(50), Auto)>> }

\* The nodes without children.
LeafNodes ==
    {Canvas(<<>>)}
    \cup { Panel(b[1], b[2], <<>>) : b \in PanelBlocks }
    \cup { Text(NoBackground, Anchored("BottomRight", Auto, Auto, Px(4)), DefaultNodeText),
           Text(ColorBackground, DefaultNodePosition, TitleNodeText),
           TextFieldNode(NoBackground, DefaultNodePosition, DefaultNodeTextField) }

\* The trees of exactly n nodes, and the sequences of trees of n nodes in all.
RECURSIVE TreesOfSize(_), ForestsOfSize(_)
TreesOfSize(n) ==
    IF n = 1 THEN LeafNodes
    ELSE { Canvas(f) : f \in ForestsOfSize(n - 1) }
         \cup { Panel(b[1], b[2], f) : b \in PanelBlocks, f \in ForestsOfSize(n - 1) }

ForestsOfSize(n) ==
    IF n = 0 THEN {<<>>}
    ELSE UNION { { <<t>> \o f : t \in TreesOfSize(k), f \in ForestsOfSize(n - k) } :
                 k \in 1 .. n }

Trees == UNION { TreesOfSize(n) : n \in 1 .. MaxNodes }

\* The entity id cmd.spawn hands out next: ids count the spawns.
NextEntity == Cardinality({i \in 1 .. Len(cmds) : cmds[i].cmd = "spawn"}) + 1

\* UiNode::build: build_node on the root with no parent.
InitBuild ==
    /\ field = DefaultTextField
    /\ sections = <<>>
    /\ node = DefaultNodeBundleBuilder
    /\ root \in Trees
    /\ calls = <<[node |-> root, parent |-> None]>>
    /\ cmds = <<>>
    /\ last = [op |-> "build", call |-> [node |-> root, parent |-> None], first |-> 0,
               pre_cmds |-> <<>>, pre_calls |-> <<>>]

\* The build_node call that has just run: the call, the first entity id it
\* spawned, the command queue and the pending calls before it.
LastBuild == [op |-> "build_node", call |-> Head(calls), first |-> NextEntity,
              pre_cmds |-> cmds, pre_calls |-> calls]

\* A variant that pins the canvas to the corner and leaves its size automatic.
CanvasStyle_auto_size(style) == [style EXCEPT !.top = Px(0), !.left = Px(0)]

\* The style fields build_node writes for a Canvas.
CanvasStyle(style) ==
    [style EXCEPT !.top = Px(0), !.left = Px(0),
                  !.width = Percent(100), !.height = Percent(100)]

\* build_node of a Canvas: the builder is filled and built; the children's
\* build_node calls run next, before the caller's remaining children.
BuildCanvas ==
    /\ calls # <<>>
    /\ Head(calls).node.kind = "Canvas"
    /\ LET call == Head(calls)
           n0 == set_parent(DefaultNodeBundleBuilder, call.parent)
           n1 == [n0 EXCEPT !.style = CanvasStyle(n0.style)]
           n2 == NodeChildren_apply_to_node(n1, call.node.children)
       IN /\ cmds' = cmds \o EntityCommands(n2, NextEntity)
          /\ calls' = ChildCalls(n2, NextEntity) \o Tail(calls)
    /\ last' = LastBuild
    /\ UNCHANGED <<field, sections, node, root>>

BuildPanel ==
    /\ calls # <<>>
    /\ Head(calls).node.kind = "Panel"
    /\ LET call == Head(calls)
           n0 == set_parent(DefaultNodeBundleBuilder, call.parent)
           n1 == NodeBackground_apply_to_node(n0, call.node.background)
           n2 == NodePosition_apply_to_node(n1, call.node.position)
           n3 == NodeChildren_apply_to_node(n2, call.node.children)
       IN /\ cmds' = cmds \o EntityCommands(n3, NextEntity)
          /\ calls' = ChildCalls(n3, NextEntity) \o Tail(calls)
    /\ last' = LastBuild
    /\ UNCHANGED <<field, sections, node, root>>

\* build_node of a Text: the container is built, then the content with the
\* container's id as its parent.
BuildText ==
    /\ calls # <<>>
    /\ Head(calls).node.kind = "Text"
    /\ LET call == Head(calls)
           c0 == set_parent(DefaultNodeBundleBuilder, call.parent)
           c1 == NodeBackground_apply_to_node(c0, call.node.background)
           c2 == NodePosition_apply_to_node(c1, call.node.position)
           container_node == apply_to_parent(c2, call.node.text.anchor_point)
           container_id == NextEntity
           t0 == set_parent(DefaultNodeBundleBuilder, Some(container_id))
           text_node == NodeText_apply_to_node(t0, call.node.text)
       IN /\ cmds' = cmds \o EntityCommands(container_node, container_id)
                          \o EntityCommands(text_node, container_id + 1)
          /\ calls' = ChildCalls(container_node, container_id)
                      \o ChildCalls(text_node, container_id + 1) \o Tail(calls)
    /\ last' = LastBuild
    /\ UNCHANGED <<field, sections, node, root>>

BuildTextField ==
    /\ calls # <<>>
    /\ Head(calls).node.kind = "TextField"
    /\ LET call == Head(calls)
           c0 == set_parent(DefaultNodeBundleBuilder, call.parent)
           c1 == NodeBackground_apply_to_node(c0, call.node.background)
           c2 == NodePosition_apply_to_node(c1, call.node.position)
           container_node == apply_to_parent(c2, call.node.text_field.anchor_point)
           container_id == NextEntity
           t0 == set_parent(DefaultNodeBundleBuilder, Some(container_id))
           text_field_node == NodeTextField_apply_to_node(t0, call.node.text_field)
       IN /\ cmds' = cmds \o EntityCommands(container_node, container_id)
                          \o EntityCommands(text_field_node, container_id + 1)
          /\ calls' = ChildCalls(container_node, container_id)
                      \o ChildCalls(text_field_node, container_id + 1) \o Tail(calls)
    /\ last' = LastBuild
    /\ UNCHANGED <<field, sections, node, root>>

NextBuild == BuildCanvas \/ BuildPanel \/ BuildText \/ BuildTextField

SpecBuild == InitBuild /\ [][NextBuild]_vars

\* ------------------------------------------------------------------------
\* A position block applied to a builder, on its own
\* ------------------------------------------------------------------------
Margins == {Px(8), Percent(5), Auto}

Sizes == { <<Auto, Auto>>, <<Px(100), Percent(50)>> }

Positions ==
    { Relative(s[1], s[2]) : s \in Sizes }
    \cup { Absolute(Px(10), Percent(20), s[1], s[2]) : s \in Sizes }
    \cup { Anchored(a, s[1], s[2], m) : a \in AnchorPoints, s \in Sizes, m \in Margins }

InitPos ==
    /\ field = DefaultTextField
    /\ sections = <<>>
    /\ node = DefaultNodeBundleBuilder
    /\ root = Canvas(<<>>)
    /\ calls = <<>>
    /\ cmds = <<>>
    /\ last = [op |-> "new", block |-> DefaultNodePosition, pre |-> DefaultNodeBundleBuilder]

\* position.apply_to_node(&mut node, ..) on the builder as earlier blocks left it.
ApplyPosition ==
    /\ \E pos \in Positions :
         /\ node' = NodePosition_apply_to_node(node, pos)
         /\ last' = [op |-> "position", block |-> pos, pre |-> node]
    /\ UNCHANGED <<field, sections, root, calls, cmds>>

NextPos == ApplyPosition

SpecPos == InitPos /\ [][NextPos]_vars

\* ------------------------------------------------------------------------
\* Compiling one Text or TextField node, with every position and anchor point
\* ------------------------------------------------------------------------
Backgrounds == {NoBackground, ColorBackground, ImageBackground}

ContentNodes ==
    { Text(b, pos, [DefaultNodeText EXCEPT !.anchor_point = a]) :
        b \in Backgrounds, pos \in Positions, a \in AnchorPoints }
    \cup { TextFieldNode(b, pos, [DefaultNodeTextField EXCEPT !.anchor_point = a]) :
             b \in Backgrounds, pos \in Positions, a \in AnchorPoints }

InitContent ==
    /\ field = DefaultTextField
    /\ sections = <<>>
    /\ node = DefaultNodeBundleBuilder
    /\ root \in ContentNodes
    /\ calls = <<[node |-> root, parent |-> None]>>
    /\ cmds = <<>>
    /\ last = [op |-> "build", call |-> [node |-> root, parent |-> None], first |-> 0,
               pre_cmds |-> <<>>, pre_calls |-> <<>>]

NextContent == BuildText \/ BuildTextField

SpecContent == InitContent /\ [][NextContent]_vars

\* ------------------------------------------------------------------------
\* Helpers of the properties
\* ------------------------------------------------------------------------
\* The storage units (bytes) of a buffer: each character, once per unit.
RECURSIVE Bytes(_)
Bytes(s) ==
    IF s = <<>> THEN <<>>
    ELSE [k \in 1 .. Width(Head(s)) |-> <<Head(s), k>>] \o Bytes(Tail(s))

\* The characters of t at the 0-based positions a .. b-1.
Slice(t, a, b) == SubSeq(t, a + 1, IF b < Len(t) THEN b ELSE Len(t))

Min(a, b) == IF a < b THEN a ELSE b

\* A key press that the active field has just handled.
Pressed == last.op = "key" /\ last.pre.active /\ last.ev.state = "Pressed"

Value(i) == sections[i + 1].value     \* the value of section i, 0-based as in the code

\* ------------------------------------------------------------------------
\* C1: in every state reached by key events on the active field, a selection
\* present satisfies 0 <= start <= start + length <= len(buffer).
\* ------------------------------------------------------------------------
C1_SelectionInBounds ==
    field.selection # None =>
        /\ 0 <= field.selection[1].start
        /\ field.selection[1].start <= SelEnd(field.selection[1])
        /\ SelEnd(field.selection[1]) <= ByteLen(field.text)

\* ------------------------------------------------------------------------
\* C2: in every state reached by key events and direct calls of insert_char,
\* remove_previous_char, remove_next_char and drain_selection,
\* 0 <= cursor_pos <= len(buffer), the length being String::len as in the code.
\* ------------------------------------------------------------------------
C2_CursorInBuffer ==
    /\ 0 <= field.cursor_pos
    /\ field.cursor_pos <= ByteLen(field.text)

\* A removal at the end of the buffer has just left the cursor at the new end.
C2_Witness ==
    /\ last.op = "remove_previous_char"
    /\ last.pre.cursor_pos = ByteLen(last.pre.text)
    /\ last.pre.text # <<>>
    /\ field.cursor_pos = ByteLen(field.text)
    /\ field.text # last.pre.text

\* ------------------------------------------------------------------------
\* C3: drain_selection with no selection leaves buffer and cursor_pos as they
\* were; with a selection within the bounds of the buffer, wherever the cursor
\* is, it removes exactly buffer[start .. start+length], sets cursor_pos to
\* start and leaves no selection.
\* ------------------------------------------------------------------------
C3_DrainSelection ==
    last.op = "drain_selection" =>
        IF last.pre.selection = None
        THEN field = last.pre
        ELSE LET sel == last.pre.selection[1] IN
             SelEnd(sel) <= ByteLen(last.pre.text) =>
                /\ ~field.panicked
                /\ Bytes(field.text) =
                      Take(Bytes(last.pre.text), sel.start)
                      \o Skip(Bytes(last.pre.text), SelEnd(sel))
                /\ field.cursor_pos = sel.start
                /\ field.selection = None

\* ------------------------------------------------------------------------
\* C4: for every character c and every field with no selection and
\* 0 <= cursor_pos <= len(buffer), insert_char(c) then remove_previous_char()
\* restores the buffer and cursor_pos.
\* ------------------------------------------------------------------------
C4_InsertRemoveRoundTrip ==
    (/\ last.op = "insert_then_remove"
     /\ last.pre.selection = None
     /\ last.pre.cursor_pos <= ByteLen(last.pre.text))
    => /\ ~field.panicked
       /\ field.text = last.pre.text
       /\ field.cursor_pos = last.pre.cursor_pos

\* ------------------------------------------------------------------------
\* C5: on the active field with no selection and the cursor at p, k presses
\* of ArrowLeft with shift held (1 <= k <= p) leave selection {p-k, k},
\* cursor_pos p-k and the buffer as it was.
\* ------------------------------------------------------------------------
C5_ShiftLeftRun ==
    (last.op = "key" /\ last.run_k >= 1) =>
        /\ field.selection =
              Some([start |-> last.run_p - last.run_k, length |-> last.run_k])
        /\ field.cursor_pos = last.run_p - last.run_k
        /\ field.text = last.run_text
        /\ ~field.panicked

\* Two presses from the end of a two-byte buffer.
C5_Witness ==
    /\ last.op = "key"
    /\ last.run_k = 2
    /\ last.run_p = ByteLen(field.text)
    /\ field.selection = Some([start |-> last.run_p - 2, length |-> 2])
    /\ field.cursor_pos = last.run_p - 2

\* ------------------------------------------------------------------------
\* C6: a literal-character event, or an Enter / Space / Tab press, on the
\* active field inserts exactly that one character: with no selection at
\* cursor_pos, cursor_pos growing by 1; with a selection {start, length} in
\* place of the selected range, cursor_pos = start + 1; no selection after.
\* ------------------------------------------------------------------------
C6_Char(ev) ==
    CASE ev.key_code = "Enter" -> "\n"
      [] ev.key_code = "Space" -> " "
      [] ev.key_code = "Tab"   -> "\t"
      [] OTHER                 -> ev.logical_key[1]

C6_InsertsOneCharacter ==
    (/\ Pressed
     /\ \/ last.ev.key_code \in {"Enter", "Space", "Tab"}
        \/ last.ev.logical_key # None)
    => LET c == C6_Char(last.ev)
           pre == last.pre
           a == IF pre.selection = None THEN pre.cursor_pos ELSE pre.selection[1].start
           b == IF pre.selection = None THEN pre.cursor_pos ELSE SelEnd(pre.selection[1])
       IN /\ ~field.panicked
          /\ Bytes(field.text) =
                Take(Bytes(pre.text), a) \o Bytes(<<c>>) \o Skip(Bytes(pre.text), b)
          /\ field.cursor_pos = a + 1
          /\ field.selection = None

\* ------------------------------------------------------------------------
\* C7: after the active field handles a Ctrl+A press the selection is
\* {0, len(buffer)}, whatever it was before, and the buffer is unchanged.
\* ------------------------------------------------------------------------
C7_CtrlASelectsAll ==
    (Pressed /\ last.ev.key_code = "KeyA" /\ last.ev.ctl_key)
    => /\ field.text = last.pre.text
       /\ field.selection = Some([start |-> 0, length |-> ByteLen(field.text)])

\* ------------------------------------------------------------------------
\* C8: with no selection, update_text sets run 0 to the characters before
\* cursor_pos, run 1 to the cursor glyph when the blink is on and to the empty
\* string when it is off, run 2 to the characters from cursor_pos on, and
\* leaves runs 3 to 8 empty.
\* ------------------------------------------------------------------------
C8_ProjectionNoSelection ==
    (last.op = "update_text" /\ field.selection = None) =>
        /\ Len(sections) = 9
        /\ Value(0) \o Value(2) = field.text
        /\ Len(Value(0)) = Min(field.cursor_pos, Len(field.text))
        /\ Value(1) = IF field.cursor_blink THEN CursorGlyph ELSE <<>>
        /\ \A i \in 3 .. 8 : Value(i) = <<>>

\* A two-character buffer, the cursor after the first, the blink on.
C8_Witness ==
    /\ last.op = "update_text"
    /\ field.selection = None
    /\ Len(field.text) = 2
    /\ field.cursor_pos = 1
    /\ field.cursor_blink
    /\ Value(0) = <<field.text[1]>>
    /\ Value(1) = CursorGlyph
    /\ Value(2) = <<field.text[2]>>

\* ------------------------------------------------------------------------
\* C9: after update_text the text has exactly 9 runs; when it had 9 before, a
\* non-forced update leaves every run's style as it was, even if the field's
\* font, size or color changed meanwhile; initialize_text_sections with force
\* rebuilds all 9 styles from the field's current font, size and color.
\* ------------------------------------------------------------------------
C9_Styles(f) ==
    LET n == [font |-> f.font, font_size |-> f.font_size, color |-> f.font_color]
        c == [font |-> CURSOR_HANDLE, font_size |-> f.font_size, color |-> f.font_color]
        h == [font |-> f.font, font_size |-> f.font_size, color |-> "BLUE"]
    IN <<n, c, n, h, c, h, n, c, n>>

C9_NineRunsStylesKept ==
    /\ last.op = "update_text" =>
          /\ Len(sections) = 9
          /\ Len(last.pre_sections) = 9 =>
                \A i \in 1 .. 9 : sections[i].style = last.pre_sections[i].style
          /\ Len(last.pre_sections) # 9 =>
                \A i \in 1 .. 9 : sections[i].style = C9_Styles(field)[i]
    /\ last.op = "initialize_text_sections" =>
          /\ Len(sections) = 9
          /\ \A i \in 1 .. 9 : sections[i].style = C9_Styles(field)[i]

\* An update of 9 runs whose styles are not those of the field's current font.
C9_Witness ==
    /\ last.op = "update_text"
    /\ Len(last.pre_sections) = 9
    /\ last.pre_sections[1].style.font # field.font
    /\ sections[1].style = last.pre_sections[1].style
    /\ sections[1].value # last.pre_sections[1].value

\* ------------------------------------------------------------------------
\* C10 as stated: with a selection, the cursor is classified as before-or-at
\* the selection start, inside, or at-or-after its end, and only the three
\* runs of that zone (0-2, 3-5 or 6-8) are populated, the other six are empty.
\* ------------------------------------------------------------------------
C10_StatedZone ==
    LET sel == field.selection[1] IN
    IF field.cursor_pos <= sel.start THEN 0
    ELSE IF field.cursor_pos < SelEnd(sel) THEN 1 ELSE 2

C10_OnlyZoneRunsPopulated ==
    (last.op = "update_text" /\ field.selection # None) =>
        \A i \in 0 .. 8 :
            (i \notin {3 * C10_StatedZone, 3 * C10_StatedZone + 1, 3 * C10_StatedZone + 2})
            => Value(i) = <<>>

\* ------------------------------------------------------------------------
\* C10 as amended: with a selection, the cursor is classified as strictly
\* before the selection start, inside (start <= cursor_pos < end), or
\* at-or-after the end; the cursor glyph goes to that zone's cursor run only
\* (run 1, 4 or 7) with that zone's text split around it into the zone's pre-
\* and post-cursor runs; each other zone's text goes whole into its pre-cursor
\* run (0, 3 or 6) and its cursor and post-cursor runs stay empty.
\* ------------------------------------------------------------------------
C10_ZoneProjection ==
    (last.op = "update_text" /\ field.selection # None) =>
        LET t == field.text
            cp == field.cursor_pos
            start == field.selection[1].start
            end == SelEnd(field.selection[1])
            glyph == IF field.cursor_blink THEN CursorGlyph ELSE <<>>
            empty(S) == \A i \in S : Value(i) = <<>>
        IN /\ Len(sections) = 9
           /\ cp < start =>
                 /\ Value(0) = Slice(t, 0, cp) /\ Value(1) = glyph
                 /\ Value(2) = Slice(t, cp, start)
                 /\ Value(3) = Slice(t, start, end) /\ Value(6) = Slice(t, end, Len(t))
                 /\ empty({4, 5, 7, 8})
           /\ (start <= cp /\ cp < end) =>
                 /\ Value(0) = Slice(t, 0, start)
                 /\ Value(3) = Slice(t, start, cp) /\ Value(4) = glyph
                 /\ Value(5) = Slice(t, cp, end)
                 /\ Value(6) = Slice(t, end, Len(t))
                 /\ empty({1, 2, 7, 8})
           /\ (start <= cp /\ end <= cp) =>
                 /\ Value(0) = Slice(t, 0, start) /\ Value(3) = Slice(t, start, end)
                 /\ Value(6) = Slice(t, end, cp) /\ Value(7) = glyph
                 /\ Value(8) = Slice(t, cp, Len(t))
                 /\ empty({1, 2, 4, 5})

\* The cursor at the start of a non-empty selection: the glyph is in run 4.
C10_Witness ==
    /\ last.op = "update_text"
    /\ field.selection # None
    /\ field.cursor_pos = field.selection[1].start
    /\ field.selection[1].length > 0
    /\ field.cursor_pos > 0
    /\ field.cursor_blink
    /\ Value(4) = CursorGlyph
    /\ Value(0) # <<>>
    /\ Value(5) # <<>>

\* ------------------------------------------------------------------------
\* Helpers of the properties of the node compiler
\* ------------------------------------------------------------------------
\* The commands the build_node call that has just run has queued.
NewCmds == SubSeq(cmds, Len(last.pre_cmds) + 1, Len(cmds))

Entities == 1 .. (NextEntity - 1)

\* The place in the queue of the spawn of an entity.
SpawnIndex(id) == CHOOSE i \in 1 .. Len(cmds) : cmds[i].cmd = "spawn" /\ cmds[i].id = id

\* The places in the queue of the commands that give an entity a Style.
StyleInserts(id) ==
    { i \in 1 .. Len(cmds) :
        /\ cmds[i].cmd = "insert" /\ cmds[i].id = id
        /\ \E k \in 1 .. Len(cmds[i].components) : cmds[i].components[k].type = "Style" }

\* The Style of an entity once the queue is applied: the last one inserted.
StyleOf(id) ==
    LET i == CHOOSE i \in StyleInserts(id) : \A j \in StyleInserts(id) : j <= i
    IN cmds[i].components[1].style

\* The parent of an entity once the queue is applied.
ParentOf(id) ==
    LET S == { i \in 1 .. Len(cmds) : cmds[i].cmd = "set_parent" /\ cmds[i].id = id }
    IN IF S = {} THEN None
       ELSE Some(cmds[CHOOSE i \in S : \A j \in S : j <= i].parent)

\* ------------------------------------------------------------------------
\* C11: for each of the 9 anchor points and any margin m, applying an Anchored
\* position yields position-mode absolute; on a centered axis both edges are 0
\* and both margins of the axis are automatic; on a pinned axis the pinned
\* edge is 0, the opposite edge automatic and the margin on the pinned edge m.
\* Corners center no axis, TopCenter and BottomCenter the horizontal axis,
\* CenterLeft and CenterRight the vertical axis, Center both.
\* ------------------------------------------------------------------------
C11_HorCentered == {"TopCenter", "BottomCenter", "Center"}
C11_VerCentered == {"CenterLeft", "CenterRight", "Center"}
C11_PinnedLeft == {"TopLeft", "CenterLeft", "BottomLeft"}
C11_PinnedRight == {"TopRight", "CenterRight", "BottomRight"}
C11_PinnedTop == {"TopLeft", "TopCenter", "TopRight"}
C11_PinnedBottom == {"BottomLeft", "BottomCenter", "BottomRight"}

C12_CanvasGeometry ==
    /\ \A id \in Entities : Cardinality(StyleInserts(id)) = 1
    /\ (last.op = "build_node" /\ last.call.node.kind = "Canvas") =>
          LET s == StyleOf(last.first) IN
          /\ s.top = Px(0)
          /\ s.left = Px(0)
          /\ s.width = Percent(100)
          /\ s.height = Percent(100)

\* A canvas with a child of its own, compiled as the child of a panel.
C12_Witness ==
    /\ last.op = "build_node"
    /\ last.call.node.kind = "Canvas"
    /\ last.call.node.children # <<>>
    /\ last.call.parent # None
    /\ root.kind = "Panel"
    /\ ParentOf(last.first) = last.call.parent
    /\ StyleOf(last.first).width = Percent(100)

\* ------------------------------------------------------------------------
\* C13: compiling a node tree creates exactly 2 elements for each Text or
\* TextField node (a container whose parent is the node's parent, then a
\* content element whose parent is that container, created after the
\* container), also for a Text with no sections, and exactly 1 element for
\* each Canvas or Panel node plus the elements of its children, recursively.
\* ------------------------------------------------------------------------
RECURSIVE C13_Count(_), C13_CountAll(_)
C13_Count(n) ==
    IF n.kind \in {"Text", "TextField"} THEN 2 ELSE 1 + C13_CountAll(n.children)

C13_CountAll(ns) == IF ns = <<>> THEN 0 ELSE C13_Count(Head(ns)) + C13_CountAll(Tail(ns))

C13_ElementsPerNode ==
    /\ calls = <<>> => NextEntity - 1 = C13_Count(root)
    /\ last.op = "build_node" =>
          LET n == last.call.node
              id == last.first
              spawned == SelectSeq(NewCmds, LAMBDA c : c.cmd = "spawn")
          IN IF n.kind \in {"Text", "TextField"}
             THEN /\ Len(spawned) = 2
                  /\ spawned[1].id = id /\ spawned[2].id = id + 1
                  /\ ParentOf(id) = last.call.parent
                  /\ ParentOf(id + 1) = Some(id)
                  /\ \A i \in 1 .. Len(cmds) :
                        cmds[i].id = id + 1 => SpawnIndex(id) < i
                  /\ calls = Tail(last.pre_calls)
             ELSE /\ Len(spawned) = 1
                  /\ spawned[1].id = id
                  /\ ParentOf(id) = last.call.parent
                  /\ Len(calls) = Len(n.children) + Len(last.pre_calls) - 1
                  /\ \A i \in 1 .. Len(n.children) :
                        calls[i] = [node |-> n.children[i], parent |-> Some(id)]

\* A Text with no sections compiled under a panel: container, then content.
C13_Witness ==
    /\ last.op = "build_node"
    /\ last.call.node.kind = "Text"
    /\ last.call.node.text.sections = <<>>
    /\ last.call.parent # None
    /\ NextEntity - 1 = last.first + 1
    /\ ParentOf(last.first) = last.call.parent
    /\ ParentOf(last.first + 1) = Some(last.first)
    /\ calls = <<>>
    /\ C13_Count(root) >= 3

\* ------------------------------------------------------------------------
\* C14: a key event changes the field's state (buffer, cursor_pos, selection,
\* blink, rendered runs) only if the field is active and the event is a
\* press: an inactive field and a key release leave all of it unchanged.
\* ------------------------------------------------------------------------
C14_OnlyActivePress ==
    (last.op = "key" /\ (~last.pre.active \/ last.ev.state # "Pressed")) =>
        /\ field = last.pre
        /\ sections = last.pre_sections

\* A character press on a deactivated field that holds text, with the cursor
\* blinked off and the timer part-way through its period.
C14_Witness ==
    /\ last.op = "key"
    /\ ~last.pre.active
    /\ last.ev.state = "Pressed"
    /\ last.ev.logical_key # None
    /\ last.pre.text # <<>>
    /\ ~last.pre.cursor_blink
    /\ last.pre.cursor_blink_timer > 0
    /\ Len(sections) = 9
    /\ field = last.pre

\* ------------------------------------------------------------------------
\* C15: on the active field, Backspace or Delete with a selection only drains
\* the selection; with no selection Backspace removes the character at
\* cursor_pos - 1 and decrements cursor_pos, Delete removes the character at
\* cursor_pos and leaves cursor_pos; Backspace at cursor_pos = 0 and Delete at
\* cursor_pos = len change neither buffer nor cursor; none of them fails.
\* ------------------------------------------------------------------------
\* The buffer t without the character that starts at storage index b.
C15_Without(t, b) ==
    { Take(t, i - 1) \o Skip(t, i) : i \in { j \in 1 .. Len(t) : ByteLen(Take(t, j - 1)) = b } }

C15_BackspaceDelete ==
    (Pressed /\ last.ev.key_code \in {"Backspace", "Delete"}) =>
        LET pre == last.pre
            cp == pre.cursor_pos
        IN /\ ~field.panicked
           /\ pre.selection # None =>
                 /\ Bytes(field.text) =
                       Take(Bytes(pre.text), pre.selection[1].start)
                       \o Skip(Bytes(pre.text), SelEnd(pre.selection[1]))
                 /\ field.selection = None
           /\ (pre.selection = None /\ last.ev.key_code = "Backspace") =>
                 IF cp = 0
                 THEN field.text = pre.text /\ field.cursor_pos = 0
                 ELSE field.text \in C15_Without(pre.text, cp - 1)
                      /\ field.cursor_pos = cp - 1
           /\ (pre.selection = None /\ last.ev.key_code = "Delete") =>
                 IF cp = ByteLen(pre.text)
                 THEN field.text = pre.text /\ field.cursor_pos = cp
                 ELSE field.text \in C15_Without(pre.text, cp)
                      /\ field.cursor_pos = cp

\* ------------------------------------------------------------------------
\* Helpers of C16
\* ------------------------------------------------------------------------
\* The press has changed the buffer, cursor_pos or the selection.
C16_Changed ==
    \/ field.text # last.pre.text
    \/ field.cursor_pos # last.pre.cursor_pos
    \/ field.selection # last.pre.selection

\* The blink is reset and the sections are the projection of the new state.
C16_ResetAndProjected ==
    /\ field.cursor_blink_timer = 0
    /\ field.cursor_blink
    /\ sections = update_text(field, last.pre_sections)

C16_Untouched ==
    /\ field.cursor_blink_timer = last.pre.cursor_blink_timer
    /\ field.cursor_blink = last.pre.cursor_blink
    /\ sections = last.pre_sections

\* ------------------------------------------------------------------------
\* C16 as stated: every key press handled by the active field that changes
\* the buffer, cursor_pos or selection resets the cursor blink (timer to zero,
\* blink on) and re-runs the projector; a key press that changes none of them
\* (ArrowLeft at cursor 0, Backspace at cursor 0 with no selection, an unmapped
\* key) leaves the blink state and the rendered runs untouched.
\* ------------------------------------------------------------------------
C16_ResetIffChanged ==
    Pressed => IF C16_Changed THEN C16_ResetAndProjected ELSE C16_Untouched

\* ------------------------------------------------------------------------
\* C16 as amended: every key press handled by the active field that changes
\* the buffer, cursor_pos or selection resets the cursor blink and re-runs the
\* projector; so does every ArrowLeft, ArrowRight, Home and End press,
\* Backspace at cursor 0 with no selection and Delete at the end with no
\* selection, although they may change none of the three; a key press leaves
\* the blink state and the rendered runs untouched when it matches no branch
\* of the handler (an unmapped key that carries no character).
\* ------------------------------------------------------------------------
C16_ResetOnBranch ==
    Pressed =>
        /\ C16_Changed => C16_ResetAndProjected
        /\ last.ev.key_code \in {"ArrowLeft", "ArrowRight", "Home", "End"}
              => C16_ResetAndProjected
        /\ (/\ last.pre.selection = None
            /\ \/ last.ev.key_code = "Backspace" /\ last.pre.cursor_pos = 0
               \/ last.ev.key_code = "Delete"
                  /\ last.pre.cursor_pos = ByteLen(last.pre.text))
              => C16_ResetAndProjected
        /\ (last.ev.key_code = "Other" /\ last.ev.logical_key = None)
              => field = last.pre /\ C16_Untouched

\* ArrowLeft at cursor 0 while the cursor was blinked off part-way through a
\* period: nothing moves, the blink is reset and the glyph is drawn again.
C16_Witness ==
    /\ Pressed
    /\ last.ev.key_code = "ArrowLeft"
    /\ last.pre.cursor_pos = 0
    /\ ~C16_Changed
    /\ ~last.pre.cursor_blink
    /\ last.pre.cursor_blink_timer > 0
    /\ Len(last.pre_sections) = 9
    /\ field.cursor_blink
    /\ field.cursor_blink_timer = 0
    /\ Value(1) = CursorGlyph

\* ------------------------------------------------------------------------
\* C17: no key event, in any reachable state of the active field, makes the
\* handler fault: the range or index that drain_selection, insert_char,
\* remove_previous_char and remove_next_char use lies within the buffer.
\* ------------------------------------------------------------------------
C17_HandlerNeverFaults == last.op = "key" => ~field.panicked

\* ------------------------------------------------------------------------
\* C18: without shift, ArrowLeft and ArrowRight move cursor_pos by exactly one
\* and are clamped at 0 and at len, Home sets cursor_pos = 0 and End sets
\* cursor_pos = len(buffer); the buffer and any selection stay as they were.
\* ------------------------------------------------------------------------
C18_UnshiftedMoves ==
    (Pressed /\ ~last.ev.shift_key
     /\ last.ev.key_code \in {"ArrowLeft", "ArrowRight", "Home", "End"}) =>
        LET cp == last.pre.cursor_pos
            len == ByteLen(last.pre.text)
        IN /\ field.text = last.pre.text
           /\ field.selection = last.pre.selection
           /\ ~field.panicked
           /\ last.ev.key_code = "ArrowLeft" =>
                 field.cursor_pos = IF cp = 0 THEN 0 ELSE cp - 1
           /\ last.ev.key_code = "ArrowRight" =>
                 field.cursor_pos = IF cp = len THEN len ELSE cp + 1
           /\ last.ev.key_code = "Home" => field.cursor_pos = 0
           /\ last.ev.key_code = "End" => field.cursor_pos = len

\* End without shift from inside a selection: the cursor goes to the end of
\* the buffer and the selection stays.
C18_Witness ==
    /\ Pressed
    /\ ~last.ev.shift_key
    /\ last.ev.key_code = "End"
    /\ last.pre.selection # None
    /\ last.pre.selection[1].length > 0
    /\ last.pre.cursor_pos < ByteLen(last.pre.text)
    /\ field.cursor_pos = ByteLen(field.text)
    /\ field.selection = last.pre.selection

\* ------------------------------------------------------------------------
\* C19: with shift held, Home leaves cursor_pos = 0 and a selection whose
\* start is 0, End leaves cursor_pos = len(buffer) and a selection whose end
\* is len(buffer); with no prior selection the selection is the range between
\* the old cursor_pos and the buffer start (Home) or end (End); with a prior
\* selection it is that selection extended to reach 0 (Home) or len (End).
\* ------------------------------------------------------------------------
C19_ShiftHomeEnd ==
    (Pressed /\ last.ev.shift_key /\ last.ev.key_code \in {"Home", "End"}) =>
        LET cp == last.pre.cursor_pos
            len == ByteLen(last.pre.text)
            old == last.pre.selection
        IN /\ field.selection # None
           /\ field.text = last.pre.text
           /\ last.ev.key_code = "Home" =>
                 /\ field.cursor_pos = 0
                 /\ field.selection[1].start = 0
                 /\ old = None => field.selection[1].length = cp
                 /\ old # None => SelEnd(field.selection[1]) = SelEnd(old[1])
           /\ last.ev.key_code = "End" =>
                 /\ field.cursor_pos = len
                 /\ SelEnd(field.selection[1]) = len
                 /\ old = None => field.selection[1].start = cp
                 /\ old # None => field.selection[1].start = old[1].start

\* ------------------------------------------------------------------------
\* C20: include_char_at(index) on selection {start, length}: if index < start
\* the result is {index, length + (start - index)}; if index >= start + length
\* the result is {start, index - start + 1}; otherwise it is unchanged.
\* ------------------------------------------------------------------------
C20_IncludeCharAt ==
    last.op = "include_char_at" =>
        LET start == last.pre.selection[1].start
            length == last.pre.selection[1].length
            index == last.c[1]
            new == field.selection[1]
        IN /\ index < start =>
                 new.start = index /\ new.length = length + (start - index)
           /\ index >= start + length =>
                 new.start = start /\ new.length = index - start + 1
           /\ (start <= index /\ index < start + length) =>
                 new.start = start /\ new.length = length

\* An index past the end of a selection that does not start at 0.
C20_Witness ==
    /\ last.op = "include_char_at"
    /\ last.pre.selection[1].start > 0
    /\ last.pre.selection[1].length > 0
    /\ last.c[1] > SelEnd(last.pre.selection[1])
    /\ field.selection[1].start = last.pre.selection[1].start
    /\ SelEnd(field.selection[1]) = last.c[1] + 1

\* ------------------------------------------------------------------------
\* Helpers of C21
\* ------------------------------------------------------------------------
\* The places in the queue of the commands issued on an entity.
C21_Own(id) == { i \in 1 .. Len(cmds) : cmds[i].id = id }

\* Entity e is p or lies below p in the hierarchy the queue describes.
RECURSIVE C21_Descends(_, _)
C21_Descends(e, p) ==
    \/ e = p
    \/ ParentOf(e) # None /\ ParentOf(e)[1] >= p /\ C21_Descends(ParentOf(e)[1], p)

\* The component types of the deferred writers of an entity, in queue order.
C21_Writers(id) ==
    LET s == SpawnIndex(id)
        first == IF ParentOf(id) = None THEN s + 2 ELSE s + 3
        n == Cardinality(C21_Own(id)) - (first - s)
    IN [k \in 1 .. n |->
           [j \in 1 .. Len(cmds[first + k - 1].components) |->
               cmds[first + k - 1].components[j].type]]

\* The writers a background block defers, in the order it inserts them.
C21_BackgroundWriters(background) ==
    CASE background.kind = "None"  -> <<>>
      [] background.kind = "Color" -> << <<"BackgroundColor">> >>
      [] background.kind = "Image" ->
           << <<"UiImage", "BackgroundColor">> >>
           \o (IF background.tex_scaling = "Stretched" THEN <<>>
               ELSE << <<"ImageScaleMode">> >>)

\* The elements of a node tree in the order claimed: a node's element, then
\* its children's subtrees one after the other in sibling order.  Each entry
\* is the element's id, its parent, its kind of bundle, its writers and the
\* number of elements directly below it.
RECURSIVE C21_Preorder(_, _, _), C21_PreorderAll(_, _, _)
C21_Preorder(n, parent, id) ==
    IF n.kind = "Canvas"
    THEN << [id |-> id, parent |-> parent, bundle |-> "Node", writers |-> <<>>,
             below |-> Len(n.children)] >>
         \o C21_PreorderAll(n.children, Some(id), id + 1)
    ELSE LET own == [id |-> id, parent |-> parent,
                     bundle |-> IF n.background.kind = "Image" THEN "Image" ELSE "Node",
                     writers |-> C21_BackgroundWriters(n.background),
                     below |-> IF n.kind = "Panel" THEN Len(n.children) ELSE 1]
         IN CASE n.kind = "Panel" ->
                   <<own>> \o C21_PreorderAll(n.children, Some(id), id + 1)
              [] n.kind = "Text" ->
                   << own, [id |-> id + 1, parent |-> Some(id), bundle |-> "Text",
                            writers |-> << <<"Text">> >>, below |-> 0] >>
              [] n.kind = "TextField" ->
                   << own, [id |-> id + 1, parent |-> Some(id), bundle |-> "Text",
                            writers |-> << <<"Text">>, <<"TextField">> >>, below |-> 0] >>

C21_PreorderAll(ns, parent, id) ==
    IF ns = <<>> THEN <<>>
    ELSE C21_Preorder(Head(ns), parent, id)
         \o C21_PreorderAll(Tail(ns), parent, id + C13_Count(Head(ns)))

\* ------------------------------------------------------------------------
\* C21: for every node, build queues its steps in this order: create the
\* element, attach the style, attach to the parent if any, apply the deferred
\* writers in insertion order, then compile the children one by one in
\* sibling order with this element as parent; so every element is created and
\* attached before any of its descendants, and a sibling's whole subtree is
\* created before the next sibling.
\* ------------------------------------------------------------------------
C21_BuildOrder ==
    /\ \A id \in Entities :
          LET s == SpawnIndex(id)
              n == Cardinality(C21_Own(id))
          IN /\ C21_Own(id) = s .. (s + n - 1)
             /\ n >= 2
             /\ cmds[s].cmd = "spawn"
             /\ StyleInserts(id) = {s + 1}
             /\ \A i \in C21_Own(id) :
                   cmds[i].cmd = "set_parent" => i = s + 2
             /\ \A i \in C21_Own(id) : i > s => cmds[i].cmd # "spawn"
             /\ ParentOf(id) # None =>
                   LET p == ParentOf(id)[1] IN
                   /\ p \in Entities
                   /\ \A i \in C21_Own(p) : i < s
                   /\ \A e \in Entities : (p < e /\ e < id) => C21_Descends(e, p)
             /\ \A e \in Entities : e < id => SpawnIndex(e) < s
    /\ LET order == C21_Preorder(root, None, 1) IN
       /\ NextEntity - 1 <= Len(order)
       /\ \A id \in Entities :
             /\ order[id].id = id
             /\ ParentOf(id) = order[id].parent
             /\ cmds[SpawnIndex(id)].bundle = order[id].bundle
             /\ C21_Writers(id) = order[id].writers
       /\ calls = <<>> =>
             /\ NextEntity - 1 = Len(order)
             /\ \A id \in Entities :
                   Cardinality({e \in Entities : ParentOf(e) = Some(id)}) = order[id].below
    /\ (last.op = "build_node" /\ last.call.node.kind \in {"Canvas", "Panel"}) =>
          calls = [i \in 1 .. Len(last.call.node.children) |->
                      [node |-> last.call.node.children[i], parent |-> Some(last.first)]]
                  \o Tail(last.pre_calls)

\* A finished compilation of a root with two children, the first an image
\* panel with a child of its own (created before the second child), the
\* second a text field whose content element carries both of its writers.
C21_Witness ==
    /\ calls = <<>>
    /\ last.op = "build_node"
    /\ root.kind = "Canvas"
    /\ Len(root.children) = 2
    /\ root.children[1].kind = "Panel"
    /\ root.children[1].background.kind = "Image"
    /\ Len(root.children[1].children) = 1
    /\ root.children[2].kind = "TextField"
    /\ ParentOf(2) = Some(1)
    /\ ParentOf(3) = Some(2)
    /\ ParentOf(3 + C13_Count(root.children[1].children[1])) = Some(1)
    /\ C21_Writers(2) = << <<"UiImage", "BackgroundColor">>, <<"ImageScaleMode">> >>
    /\ C21_Writers(NextEntity - 1) = << <<"Text">>, <<"TextField">> >>

\* ------------------------------------------------------------------------
\* C22: for every Text or TextField node, every position block and every
\* anchor_point, the container element's style carries both the geometry
\* written by the position block (size, offsets, position mode, margins) and
\* the content and item alignment derived from the content block's
\* anchor_point: apply_to_parent runs after background and position, before
\* the container element is created, and overwrites none of the fields the
\* position block set.
\* ------------------------------------------------------------------------
C22_ContainerStyle ==
    (last.op = "build_node" /\ last.call.node.kind \in {"Text", "TextField"}) =>
        LET n == last.call.node
            pos == n.position
            a == IF n.kind = "Text" THEN n.text.anchor_point ELSE n.text_field.anchor_point
            id == last.first
            s == StyleOf(id)
            anchored == set_anchor_point(DefaultStyle, pos.anchor, pos.margin)
        IN /\ StyleInserts(id) = {SpawnIndex(id) + 1}
           /\ SpawnIndex(id) + 1 < SpawnIndex(id + 1)
           /\ C21_Writers(id) = C21_BackgroundWriters(n.background)
           /\ s.width = pos.width
           /\ s.height = pos.height
           /\ pos.kind = "Relative" =>
                 /\ s.position_type = "Relative"
                 /\ s.left = Auto /\ s.right = Auto /\ s.top = Auto /\ s.bottom = Auto
                 /\ s.margin = DefaultStyle.margin
           /\ pos.kind = "Absolute" =>
                 /\ s.position_type = "Absolute"
                 /\ s.left = pos.x /\ s.top = pos.y
                 /\ s.right = Auto /\ s.bottom = Auto
                 /\ s.margin = DefaultStyle.margin
           /\ pos.kind = "Anchored" =>
                 /\ s.position_type = "Absolute"
                 /\ s.left = anchored.left /\ s.right = anchored.right
                 /\ s.top = anchored.top /\ s.bottom = anchored.bottom
                 /\ s.margin = anchored.margin
           /\ a \in C11_PinnedTop => s.align_content = "FlexStart" /\ s.align_items = "FlexStart"
           /\ a \in C11_VerCentered => s.align_content = "Center" /\ s.align_items = "Center"
           /\ a \in C11_PinnedBottom => s.align_content = "FlexEnd" /\ s.align_items = "FlexEnd"
           /\ a \in C11_PinnedLeft => s.justify_content = "Start" /\ s.justify_items = "Start"
           /\ a \in C11_HorCentered => s.justify_content = "Center" /\ s.justify_items = "Center"
           /\ a \in C11_PinnedRight => s.justify_content = "End" /\ s.justify_items = "End"

\* A text field with an image background, anchored at the center with an
\* 8 px margin, its content anchored bottom right.
C22_Witness ==
    /\ last.op = "build_node"
    /\ last.call.node.kind = "TextField"
    /\ last.call.node.background.kind = "Image"
    /\ last.call.node.position = Anchored("Center", Px(100), Percent(50), Px(8))
    /\ last.call.node.text_field.anchor_point = "BottomRight"
    /\ StyleOf(last.first).margin = center_margin
    /\ StyleOf(last.first).width = Px(100)
    /\ StyleOf(last.first).align_items = "FlexEnd"
    /\ StyleOf(last.first).justify_content = "End"
    /\ ParentOf(last.first + 1) = Some(last.first)

\* ------------------------------------------------------------------------
\* C23: cursor_blink(elapsed) advances the blink timer by elapsed, flips the
\* blink boolean when the 0.5 s period completes during that advance, and
\* returns true exactly when the boolean was flipped by the call (false
\* otherwise, with the boolean unchanged); reset_cursor_blink sets the
\* timer's elapsed time to zero and the blink boolean to on, whatever they
\* were.  Neither changes anything else of the field.
\* ------------------------------------------------------------------------
C23_BlinkTimer ==
    /\ last.op = "cursor_blink" =>
          LET delta == last.c[1].delta
              ret == last.c[1].ret
              total == last.pre.cursor_blink_timer + delta
              completed == total >= BlinkPeriod
          IN /\ field.cursor_blink_timer \in 0 .. (BlinkPeriod - 1)
             /\ (total - field.cursor_blink_timer) % BlinkPeriod = 0
             /\ ~completed => field.cursor_blink_timer = total
             /\ field.cursor_blink = IF completed THEN ~last.pre.cursor_blink
                                      ELSE last.pre.cursor_blink
             /\ ret = completed
             /\ ret = (field.cursor_blink # last.pre.cursor_blink)
             /\ field = [last.pre EXCEPT !.cursor_blink_timer = field.cursor_blink_timer,
                                         !.cursor_blink = field.cursor_blink]
             /\ sections = last.pre_sections
    /\ last.op = "reset_cursor_blink" =>
          /\ field.cursor_blink_timer = 0
          /\ field.cursor_blink
          /\ field = [last.pre EXCEPT !.cursor_blink_timer = 0, !.cursor_blink = TRUE]
          /\ sections = last.pre_sections

\* A tick longer than two periods, from part-way through a period with the
\* cursor blinked off: one flip, the call returns true, the remainder is kept.
C23_Witness ==
    /\ last.op = "cursor_blink"
    /\ last.c[1].delta > 2 * BlinkPeriod
    /\ last.pre.cursor_blink_timer > 0
    /\ ~last.pre.cursor_blink
    /\ field.cursor_blink
    /\ last.c[1].ret
    /\ field.cursor_blink_timer = (last.pre.cursor_blink_timer + 1) % BlinkPeriod

\* ------------------------------------------------------------------------
\* C24: while host ticks keep advancing time and no key events arrive, the
\* blink boolean of an active text field is eventually toggled: from every
\* state in which the field is active with the blink at b, the blink becomes
\* different from b, unless a key event arrives or the focus manager
\* activates or deactivates the field in between.
\* ------------------------------------------------------------------------
C24_BlinkEventuallyToggles ==
    \A b \in BOOLEAN :
        (field.active /\ field.cursor_blink = b /\ ~field.panicked)
        ~> (\/ field.cursor_blink # b
            \/ last.op \in {"key", "activate", "deactivate"}
            \/ field.panicked)

\* ------------------------------------------------------------------------
\* Helpers of C25
\* ------------------------------------------------------------------------
\* The text field blocks a TextField node may carry.
C25_Blocks ==
    { [DefaultNodeTextField EXCEPT !.font = st.font, !.font_size = st.font_size,
                                   !.color = st.font_color] : st \in FieldStyles }

\* The TextField components that compiling a block inserts on the content
\* element.
C25_Compiled(text_field) ==
    LET writers == NodeTextField_apply_to_node(DefaultNodeBundleBuilder, text_field).components
    IN UNION { { writers[i][j].value :
                   j \in { k \in 1 .. Len(writers[i]) : writers[i][k].type = "TextField" } } :
               i \in 1 .. Len(writers) }

\* Every compiled field is inactive, empty, with the cursor at 0, no
\* selection, the blink on and the timer at zero.
C25_FreshlyCompiled ==
    \A b \in C25_Blocks :
        /\ Cardinality(C25_Compiled(b)) = 1
        /\ \A f \in C25_Compiled(b) :
              /\ ~f.active
              /\ f.text = <<>>
              /\ f.cursor_pos = 0
              /\ f.selection = None
              /\ f.cursor_blink
              /\ f.cursor_blink_timer = 0

\* ------------------------------------------------------------------------
\* C25: the active flag of a text field changes only through activate() and
\* deactivate(): a freshly compiled field is inactive with empty buffer,
\* cursor_pos 0, no selection and blink on; activate() sets active and resets
\* the cursor blink; deactivate() clears active and changes nothing else; no
\* key event of any kind, and no blink tick or reset, changes the active flag.
\* ------------------------------------------------------------------------
C25_ActiveFlag ==
    /\ C25_FreshlyCompiled
    /\ last.op = "activate" =>
          /\ field = [last.pre EXCEPT !.active = TRUE, !.cursor_blink_timer = 0,
                                      !.cursor_blink = TRUE]
          /\ sections = last.pre_sections
    /\ last.op = "deactivate" =>
          /\ field = [last.pre EXCEPT !.active = FALSE]
          /\ sections = last.pre_sections
    /\ last.op \in {"key", "cursor_blink", "reset_cursor_blink"} =>
          field.active = last.pre.active

\* deactivate() on an active field that holds text, with the cursor blinked
\* off part-way through a period: only the flag changes.
C25_Witness ==
    /\ last.op = "deactivate"
    /\ last.pre.active
    /\ last.pre.text # <<>>
    /\ ~last.pre.cursor_blink
    /\ last.pre.cursor_blink_timer > 0
    /\ ~field.active
    /\ ~field.cursor_blink
    /\ field.cursor_blink_timer = last.pre.cursor_blink_timer
    /\ field.text = last.pre.text

\* ------------------------------------------------------------------------
\* C26: for every field state with cursor_pos and the selection within the
\* bounds of the buffer, after update_text the concatenation of the
\* non-cursor runs (0, 2, 3, 5, 6, 8) in index order equals the buffer, the
\* concatenation of runs 3 and 5 equals the selected characters
\* buffer[start .. start+length] when a selection exists, and exactly one of
\* the cursor runs (1, 4, 7) holds the glyph when the blink is on while all
\* three are empty when it is off.  Positions count characters, as the
\* projector counts them.
\* ------------------------------------------------------------------------
C26_RunsPartitionBuffer ==
    (/\ last.op = "update_text"
     /\ field.cursor_pos <= Len(field.text)
     /\ field.selection # None => SelEnd(field.selection[1]) <= Len(field.text))
    => /\ Len(sections) = 9
       /\ Value(0) \o Value(2) \o Value(3) \o Value(5) \o Value(6) \o Value(8) = field.text
       /\ field.selection # None =>
             Value(3) \o Value(5) =
                Slice(field.text, field.selection[1].start, SelEnd(field.selection[1]))
       /\ \A i \in {1, 4, 7} : Value(i) \in {<<>>, CursorGlyph}
       /\ Cardinality({i \in {1, 4, 7} : Value(i) = CursorGlyph}) =
             IF field.cursor_blink THEN 1 ELSE 0

\* The cursor inside a selection of two characters, one of them two bytes
\* wide, with text before and after the selection and the blink on.
C26_Witness ==
    /\ last.op = "update_text"
    /\ field.selection = Some(TextSelection(1, 2))
    /\ field.cursor_pos = 2
    /\ Len(field.text) = 3
    /\ WideChar \in {field.text[2], field.text[3]}
    /\ field.cursor_blink
    /\ Value(0) = <<field.text[1]>>
    /\ Value(3) = <<field.text[2]>>
    /\ Value(4) = CursorGlyph
    /\ Value(5) = <<field.text[3]>>

\* ------------------------------------------------------------------------
\* C27: a single key press delivered to the active field inserts at most one
\* character into the buffer: the key-code dispatch (Enter, Space, Tab,
\* Ctrl+A and the others) and the literal-character branch never both act on
\* the same event, for every combination of key code and logical key an
\* event can carry.
\* ------------------------------------------------------------------------
C27_OneBranchPerEvent ==
    Pressed =>
        /\ Len(field.text) <= Len(last.pre.text) + 1
        /\ ~(/\ KeyCodeBranch(last.pre, last.ev).dirty
             /\ CharacterBranch([f |-> last.pre, dirty |-> FALSE], last.ev).dirty)

\* ------------------------------------------------------------------------
\* C28: after any sequence of ArrowLeft and ArrowRight presses with shift
\* held, starting from a field with no selection, cursor_pos equals the
\* selection's start or its end, and the selection covers exactly the
\* characters between the position where the shift-selection began and
\* cursor_pos (so Shift+ArrowLeft followed by Shift+ArrowRight does not
\* leave a larger selection than before).
\* ------------------------------------------------------------------------
C28_ShiftArrowSelection ==
    Pressed =>
        LET began == last.run_p
            cp == field.cursor_pos
        IN IF field.selection = None
           THEN cp = began
           ELSE /\ cp \in {field.selection[1].start, SelEnd(field.selection[1])}
                /\ field.selection[1].start = Min(began, cp)
                /\ SelEnd(field.selection[1]) = IF began < cp THEN cp ELSE began

\* ------------------------------------------------------------------------
\* C29: for any sequence of insert_char, remove_previous_char,
\* remove_next_char and arrow-key moves with characters of any encoded width,
\* cursor_pos always falls on a character boundary of the buffer, and the
\* position at which edits act (the storage-unit index cursor_pos) is the
\* position at which the projector draws the cursor (the number of characters
\* it puts before the glyph).
\* ------------------------------------------------------------------------
C29_CursorOnCharBoundary ==
    /\ IsCharBoundary(field.text, field.cursor_pos)
    /\ CharIndex(field.text, field.cursor_pos) = Len(Take(field.text, field.cursor_pos))

\* ------------------------------------------------------------------------
\* C30: include_char_at never shrinks a selection and is idempotent: for
\* every selection and index, the old range [start, start+length) is
\* contained in the new range, index lies in the new range, the edge on the
\* side that did not grow is unchanged, and calling include_char_at(index) a
\* second time changes nothing.
\* ------------------------------------------------------------------------
C30_IncludeGrowsOnly ==
    last.op = "include_char_at" =>
        LET old == last.pre.selection[1]
            new == field.selection[1]
            index == last.c[1]
        IN /\ new.start <= old.start
           /\ SelEnd(old) <= SelEnd(new)
           /\ new.start <= index
           /\ index < SelEnd(new)
           /\ new.start < old.start => SelEnd(new) = SelEnd(old)
           /\ SelEnd(old) < SelEnd(new) => new.start = old.start
           /\ include_char_at(new, index) = new

\* An index before a non-empty selection: the start moves to it, the end stays.
C30_Witness ==
    /\ last.op = "include_char_at"
    /\ last.pre.selection[1].length > 0
    /\ last.c[1] + 1 < last.pre.selection[1].start
    /\ field.selection[1].start = last.c[1]
    /\ SelEnd(field.selection[1]) = SelEnd(last.pre.selection[1])
    /\ field.selection[1].length > last.pre.selection[1].length + 1

====
